---- MODULE Spec2Model ----
(***************************************************************************)
(* The self-adaptive formula engine of the prediction edge function: the   *)
(* rule miner (extractRules), the rule applier (applyFormulas), and the    *)
(* request handler with its three tables (game_results, predictions,       *)
(* formula_sets).  JavaScript strings are TLA+ strings; arrays are         *)
(* sequences, read with the source's 0-based indexes through At.           *)
(* Confidences are kept in thousandths (Math.round(conf * 1000)), the      *)
(* percentages 0.55, 0.03, 0.7.. in hundredths.                            *)
(***************************************************************************)
EXTENDS Integers, Sequences, FiniteSets, TLC

\* ------------------------------------------------------------------------
\* Program constants
\* ------------------------------------------------------------------------
MAX_CONSECUTIVE_FAILURES == 3
\* 0.55, in hundredths
MIN_FORMULA_CONFIDENCE == 55
\* 0.03, in hundredths
MIN_SUPPORT_PCT == 3
\* formulas.slice(0, 30)
MAX_FORMULAS == 30
\* trim_game_results: LIMIT 10 (the last migration that replaces it)
TRIM_GAME_RESULTS == 10
\* trim_predictions: rn <= 10 per mode (the last migration that replaces it)
TRIM_PREDICTIONS == 10
\* backfill: prior.length >= 3
MIN_BACKFILL_PRIOR == 3
\* extractRules: totalLen < 10 returns no formula
MIN_HISTORY == 10
\* number clustering: totalLen >= 20
MIN_CLUSTER_HISTORY == 20

\* ------------------------------------------------------------------------
\* Strings and arrays
\* ------------------------------------------------------------------------
Min(a, b) == IF a < b THEN a ELSE b

\* arr[i] with the source's 0-based index
At(arr, i) == arr[i + 1]

\* arr.slice(from, to) with 0-based from (inclusive) and to (exclusive)
Slice(arr, from, to) == SubSeq(arr, from + 1, to)

\* arr.slice(-n): the last n elements (all of them when n > length, and
\* when n = 0, since -0 is 0)
LastN(arr, n) == IF n = 0 \/ n >= Len(arr) THEN arr ELSE SubSeq(arr, Len(arr) - n + 1, Len(arr))

CharAt(s, i) == SubSeq(s, i, i)

\* String.prototype.toLowerCase on the letters that occur in colour tags
LowerChar(c) ==
    CASE c = "R" -> "r" [] c = "E" -> "e" [] c = "D" -> "d"
      [] c = "G" -> "g" [] c = "N" -> "n" [] c = "V" -> "v"
      [] c = "I" -> "i" [] c = "O" -> "o" [] c = "L" -> "l"
      [] c = "T" -> "t"
      [] OTHER -> c

RECURSIVE toLowerCase(_)
toLowerCase(s) ==
    IF Len(s) = 0 THEN ""
    ELSE LowerChar(CharAt(s, 1)) \o toLowerCase(SubSeq(s, 2, Len(s)))

\* String.prototype.includes
includes(s, needle) ==
    \E i \in 0..(Len(s) - Len(needle)) : SubSeq(s, i + 1, i + Len(needle)) = needle

IsDigit(c) == c \in {"0", "1", "2", "3", "4", "5", "6", "7", "8", "9"}

DigitVal(c) ==
    CASE c = "0" -> 0 [] c = "1" -> 1 [] c = "2" -> 2 [] c = "3" -> 3
      [] c = "4" -> 4 [] c = "5" -> 5 [] c = "6" -> 6 [] c = "7" -> 7
      [] c = "8" -> 8 [] c = "9" -> 9

\* \w of a regular expression, on the characters that occur in labels
IsWordChar(c) ==
    \/ IsDigit(c)
    \/ c \in {"A", "B", "C", "D", "E", "G", "I", "L", "M", "N", "O", "R", "S", "T", "U", "W", "_"}

\* parseInt of a run of decimal digits
RECURSIVE parseInt(_)
parseInt(s) ==
    IF Len(s) = 0 THEN 0
    ELSE 10 * parseInt(SubSeq(s, 1, Len(s) - 1)) + DigitVal(CharAt(s, Len(s)))

\* The length of the longest run of characters satisfying a class that
\* starts at position p of s (a greedy \d+ or \w+).
RECURSIVE DigitRun(_, _)
DigitRun(s, p) ==
    IF p > Len(s) \/ ~IsDigit(CharAt(s, p)) THEN 0 ELSE 1 + DigitRun(s, p + 1)

RECURSIVE WordRun(_, _)
WordRun(s, p) ==
    IF p > Len(s) \/ ~IsWordChar(CharAt(s, p)) THEN 0 ELSE 1 + WordRun(s, p + 1)

\* s has the literal lit at position p
HasAt(s, p, lit) == p >= 1 /\ p + Len(lit) - 1 <= Len(s) /\ SubSeq(s, p, p + Len(lit) - 1) = lit

\* arr.join(",")
RECURSIVE join(_)
join(arr) ==
    IF Len(arr) = 0 THEN ""
    ELSE IF Len(arr) = 1 THEN arr[1]
    ELSE arr[1] \o "," \o join(Tail(arr))

\* The concatenation of a sequence of sequences
RECURSIVE Flatten(_)
Flatten(ss) == IF Len(ss) = 0 THEN <<>> ELSE Head(ss) \o Flatten(Tail(ss))

\* The elements of a finite set of integers in increasing order
RECURSIVE Ascending(_)
Ascending(S) ==
    IF S = {} THEN <<>>
    ELSE LET m == CHOOSE x \in S : \A y \in S : x <= y
         IN  <<m>> \o Ascending(S \ {m})

\* ------------------------------------------------------------------------
\* Feature extraction
\* ------------------------------------------------------------------------
Modes == <<"color", "size">>

\* A colour label read without lower-casing the tag
colorLabelCaseSensitive(r) == IF includes(r.color, "red") THEN "RED" ELSE "GREEN"

colorLabel(r) == IF includes(toLowerCase(r.color), "red") THEN "RED" ELSE "GREEN"

sizeLabel(r) == IF r.number <= 4 THEN "SMALL" ELSE "BIG"

labelOf(r, mode) == IF mode = "color" THEN colorLabel(r) ELSE sizeLabel(r)

extractFeatures(history, mode) ==
    [seq  |-> [i \in 1..Len(history) |-> labelOf(history[i], mode)],
     nums |-> [i \in 1..Len(history) |-> history[i].number]]

outsOf(mode) == IF mode = "color" THEN <<"RED", "GREEN">> ELSE <<"BIG", "SMALL">>

\* val === outs[0] ? outs[1] : outs[0]
oppositeOf(val, outs) == IF val = outs[1] THEN outs[2] ELSE outs[1]

\* ------------------------------------------------------------------------
\* Rule extraction engine (extractRules)
\* ------------------------------------------------------------------------
\* Math.round(conf * 1000), conf = correct / matches
roundedConfidence(correct, matches) == (2000 * correct + matches) \div (2 * matches)

\* Gates without the confidence floor
passesSupportOnly(totalLen, floorDivisor, matches, correct) ==
    /\ matches * 100 * floorDivisor >= totalLen * MIN_SUPPORT_PCT
    /\ matches > 0

\* Gates without the support floor
passesConfidenceOnly(totalLen, floorDivisor, matches, correct) ==
    /\ matches > 0
    /\ correct * 100 >= MIN_FORMULA_CONFIDENCE * matches

\* The support and confidence gates of one candidate.  floorDivisor is 1,
\* or 2 for the relaxed floor totalLen * MIN_SUPPORT_PCT * 0.5.
\* conf = matches > 0 ? correct / matches : 0
passesGates(totalLen, floorDivisor, matches, correct) ==
    /\ matches * 100 * floorDivisor >= totalLen * MIN_SUPPORT_PCT
    /\ matches > 0
    /\ correct * 100 >= MIN_FORMULA_CONFIDENCE * matches

\* formulas.push({...}) when the candidate passes, nothing otherwise
candidate(totalLen, floorDivisor, id, type, condition, prediction, matches, correct) ==
    IF passesGates(totalLen, floorDivisor, matches, correct)
    THEN << [id         |-> id,
             type       |-> type,
             condition  |-> condition,
             prediction |-> prediction,
             confidence |-> roundedConfidence(correct, matches),
             support    |-> matches] >>
    ELSE <<>>

\* RULE 1: streak reversal.  The streakLen labels before position i all equal val.
isStreakAt(seq, i, streakLen, val) == \A j \in 1..streakLen : At(seq, i - j) = val

\* A count that starts one position early, at the label before the streak
streakMatchesFromShorter(seq, streakLen, val) ==
    {i \in (streakLen - 1)..(Len(seq) - 1) : isStreakAt(seq, i, streakLen - 1, val)}

streakMatches(seq, streakLen, val) ==
    {i \in streakLen..(Len(seq) - 1) : isStreakAt(seq, i, streakLen, val)}

streakRule(seq, outs, streakLen, val) ==
    LET matches  == streakMatches(seq, streakLen, val)
        opposite == oppositeOf(val, outs)
        correct  == {i \in matches : At(seq, i) = opposite}
    IN  candidate(Len(seq), 1,
                  "streak_rev_" \o ToString(streakLen) \o "_" \o val,
                  "streak_reversal",
                  "IF last " \o ToString(streakLen) \o " results = " \o val,
                  opposite, Cardinality(matches), Cardinality(correct))

streakRules(seq, outs) ==
    Flatten([k \in 1..4 |->
        Flatten([v \in 1..2 |-> streakRule(seq, outs, <<3, 4, 5, 6>>[k], outs[v])])])

\* RULE 2: n-gram patterns.  patternCounts keeps its keys in the order the
\* patterns first occur (Object.entries order).
ngramStarts(seq, n) == 0..(Len(seq) - n - 1)

ngramFirsts(seq, n) ==
    Ascending({i \in ngramStarts(seq, n) :
                 \A j \in ngramStarts(seq, n) :
                    j < i => Slice(seq, j, j + n) # Slice(seq, i, i + n)})

ngramRule(seq, outs, n, first) ==
    LET pattern == Slice(seq, first, first + n)
        occ     == {i \in ngramStarts(seq, n) : Slice(seq, i, i + n) = pattern}
    IN  Flatten([v \in 1..2 |->
          candidate(Len(seq), 1,
                    "ngram_" \o ToString(n) \o "_" \o join(pattern) \o "_" \o outs[v],
                    ToString(n) \o "gram_pattern",
                    "IF last " \o ToString(n) \o " = [" \o join(pattern) \o "]",
                    outs[v],
                    Cardinality(occ),
                    Cardinality({i \in occ : At(seq, i + n) = outs[v]}))])

ngramRules(seq, outs) ==
    Flatten([k \in 1..4 |->
        LET n == <<2, 3, 4, 5>>[k]
            firsts == ngramFirsts(seq, n)
        IN  IF Len(seq) < n + 1 THEN <<>>
            ELSE Flatten([p \in 1..Len(firsts) |-> ngramRule(seq, outs, n, firsts[p])])])

\* RULE 3: frequency imbalance.  threshold is in hundredths:
\* dominantCount / window >= threshold
\* The character U+2265 of the condition text, written in ASCII
GeSign == ">="

countOf(arr, val) == Cardinality({i \in 1..Len(arr) : arr[i] = val})

dominates(windowSlice, val, window, threshold) ==
    countOf(windowSlice, val) * 100 >= threshold * window

freqRule(seq, outs, window, threshold, dominantVal) ==
    LET matches  == {i \in window..(Len(seq) - 1) :
                        dominates(Slice(seq, i - window, i), dominantVal, window, threshold)}
        opposite == oppositeOf(dominantVal, outs)
        correct  == {i \in matches : At(seq, i) = opposite}
    IN  candidate(Len(seq), 1,
                  "freq_imb_" \o ToString(window) \o "_" \o ToString(threshold) \o "_" \o dominantVal,
                  "frequency_imbalance",
                  "IF " \o dominantVal \o " " \o GeSign \o " " \o ToString(threshold) \o "% in last " \o ToString(window),
                  opposite, Cardinality(matches), Cardinality(correct))

freqRules(seq, outs) ==
    Flatten([k \in 1..4 |->
        LET window == <<5, 8, 10, 15>>[k]
        IN  IF Len(seq) < window + 1 THEN <<>>
            ELSE Flatten([t \in 1..3 |->
                   Flatten([v \in 1..2 |->
                      freqRule(seq, outs, window, <<70, 80, 90>>[t], outs[v])])])])

\* RULE 4: alternation.  No two neighbours among the altLen labels before i are equal.
isAltAt(seq, i, altLen) == \A j \in 1..(altLen - 1) : At(seq, i - j) # At(seq, i - j - 1)

altRule(seq, outs, altLen) ==
    LET matches == {i \in altLen..(Len(seq) - 1) : isAltAt(seq, i, altLen)}
        correct == {i \in matches : At(seq, i) = oppositeOf(At(seq, i - 1), outs)}
    IN  candidate(Len(seq), 1,
                  "alt_" \o ToString(altLen),
                  "alternation",
                  "IF last " \o ToString(altLen) \o " alternate perfectly",
                  "CONTINUE_ALT", Cardinality(matches), Cardinality(correct))

altRules(seq, outs) ==
    Flatten([k \in 1..4 |->
        LET altLen == <<3, 4, 5, 6>>[k]
        IN  IF Len(seq) < altLen + 1 THEN <<>> ELSE altRule(seq, outs, altLen)])

\* RULE 5: transition probabilities.  transitions[from][to]
transitionCount(seq, from, to) ==
    Cardinality({i \in 1..(Len(seq) - 1) : At(seq, i - 1) = from /\ At(seq, i) = to})

transitionRule(seq, outs, from, to) ==
    LET total == transitionCount(seq, from, outs[1]) + transitionCount(seq, from, outs[2])
    IN  candidate(Len(seq), 1,
                  "trans_" \o from \o "_" \o to,
                  "transition",
                  "IF last result = " \o from,
                  to, total, transitionCount(seq, from, to))

transitionRules(seq, outs) ==
    Flatten([f \in 1..2 |->
        Flatten([t \in 1..2 |-> transitionRule(seq, outs, outs[f], outs[t])])])

\* RULE 6: number range clustering (size mode, at least 20 records).
\* avgNum <= 3 and avgNum >= 6 on the sum: avgNum = sum / window
RECURSIVE sumOf(_)
sumOf(arr) == IF Len(arr) = 0 THEN 0 ELSE Head(arr) + sumOf(Tail(arr))

avgLow(arr, window) == sumOf(arr) <= 3 * window

avgHigh(arr, window) == sumOf(arr) >= 6 * window

clusterRule(seq, nums, window) ==
    LET matches == {i \in window..(Len(seq) - 1) :
                       \/ avgLow(Slice(nums, i - window, i), window)
                       \/ avgHigh(Slice(nums, i - window, i), window)}
        correct == {i \in matches :
                       IF avgLow(Slice(nums, i - window, i), window)
                       THEN At(seq, i) = "SMALL"
                       ELSE At(seq, i) = "BIG"}
    IN  candidate(Len(seq), 1,
                  "num_cluster_" \o ToString(window),
                  "number_clustering",
                  "IF avg(last " \o ToString(window) \o " numbers) extreme",
                  "FOLLOW_TREND", Cardinality(matches), Cardinality(correct))

clusterRules(seq, nums, mode) ==
    IF mode = "size" /\ Len(seq) >= MIN_CLUSTER_HISTORY
    THEN Flatten([k \in 1..3 |->
            LET window == <<5, 8, 10>>[k]
            IN  IF Len(seq) < window + 1 THEN <<>> ELSE clusterRule(seq, nums, window)])
    ELSE <<>>

\* RULE 7: double/triple repeat, with the relaxed support floor.
\* A test that looks at the nearer block of repeatLen labels only
isSingleRepeatAt(seq, i, repeatLen, val) ==
    \A j \in 0..(repeatLen - 1) : At(seq, i - 1 - j) = val

\* A test for any block of repeatLen labels repeated twice
isBlockRepeatAt(seq, i, repeatLen, val) ==
    \A j \in 0..(repeatLen - 1) :
        At(seq, i - 1 - j) = At(seq, i - 1 - j - repeatLen)

isDoubleRepeatAt(seq, i, repeatLen, val) ==
    \A j \in 0..(repeatLen - 1) :
        At(seq, i - 1 - j) = val /\ At(seq, i - 1 - j - repeatLen) = val

repeatRule(seq, outs, repeatLen, val) ==
    LET matches  == {i \in (repeatLen * 2)..(Len(seq) - 1) :
                        isDoubleRepeatAt(seq, i, repeatLen, val)}
        opposite == oppositeOf(val, outs)
        correct  == {i \in matches : At(seq, i) = opposite}
    IN  candidate(Len(seq), 2,
                  "dbl_repeat_" \o ToString(repeatLen) \o "_" \o val,
                  "double_repeat",
                  "IF " \o val \o " repeated " \o ToString(repeatLen) \o "x twice",
                  opposite, Cardinality(matches), Cardinality(correct))

repeatRules(seq, outs) ==
    Flatten([k \in 1..2 |->
        LET repeatLen == <<2, 3>>[k]
        IN  IF Len(seq) < repeatLen * 2 + 1 THEN <<>>
            ELSE Flatten([v \in 1..2 |-> repeatRule(seq, outs, repeatLen, outs[v])])])

\* confidence * support in double arithmetic.  confidence is a double with
\* three decimals (in thousandths here) and support an integer; products
\* that differ exactly differ as doubles, in the same order, and products
\* that are equal exactly differ as doubles when one of them is not the
\* double nearest the exact product.  The pairs <<thousandths, support>>,
\* support up to 41 and confidence from MIN_FORMULA_CONFIDENCE, whose double
\* product is the next double above the nearest one, and below it:
ProductRoundsUp ==
    {<<667, 3>>, <<667, 6>>, <<556, 9>>, <<778, 9>>, <<667, 12>>, <<917, 12>>,
     <<786, 14>>, <<933, 15>>, <<556, 18>>, <<778, 18>>, <<632, 19>>, <<789, 19>>,
     <<667, 21>>, <<682, 22>>, <<913, 23>>, <<667, 24>>, <<792, 24>>, <<917, 24>>,
     <<560, 25>>, <<808, 26>>, <<926, 27>>, <<786, 28>>, <<552, 29>>, <<931, 29>>,
     <<633, 30>>, <<933, 30>>, <<677, 31>>, <<903, 31>>, <<935, 31>>, <<667, 33>>,
     <<794, 34>>, <<912, 34>>, <<914, 35>>, <<556, 36>>, <<778, 36>>, <<806, 36>>,
     <<784, 37>>, <<553, 38>>, <<632, 38>>, <<789, 38>>, <<921, 38>>, <<641, 39>>,
     <<795, 39>>, <<897, 39>>, <<659, 41>>, <<683, 41>>, <<927, 41>>}

ProductRoundsDown ==
    {<<833, 6>>, <<714, 7>>, <<583, 12>>, <<833, 12>>, <<692, 13>>, <<714, 14>>,
     <<867, 15>>, <<588, 17>>, <<706, 17>>, <<722, 18>>, <<944, 18>>, <<952, 21>>,
     <<591, 22>>, <<955, 22>>, <<826, 23>>, <<583, 24>>, <<708, 24>>, <<833, 24>>,
     <<958, 24>>, <<577, 26>>, <<692, 26>>, <<852, 27>>, <<963, 27>>, <<714, 28>>,
     <<964, 28>>, <<690, 29>>, <<567, 30>>, <<867, 30>>, <<967, 30>>, <<710, 31>>,
     <<697, 33>>, <<848, 33>>, <<588, 34>>, <<706, 34>>, <<971, 34>>, <<829, 35>>,
     <<943, 35>>, <<694, 36>>, <<722, 36>>, <<944, 36>>, <<730, 37>>, <<946, 37>>,
     <<711, 38>>, <<590, 39>>, <<949, 39>>, <<610, 41>>, <<854, 41>>}

productOffset(confidence, support) ==
    IF <<confidence, support>> \in ProductRoundsUp THEN 1
    ELSE IF <<confidence, support>> \in ProductRoundsDown THEN -1
    ELSE 0

\* formulas.sort((a, b) => b.confidence * b.support - a.confidence * a.support):
\* a stable sort, descending by the double product; the score orders as it does
scoreOf(f) == 3 * f.confidence * f.support + productOffset(f.confidence, f.support)

\* An insertion that keeps the push order
insertLast(sorted, f) == Append(sorted, f)

\* An insertion that puts a formula before the ones of equal score
insertBeforeTies(sorted, f) ==
    LET k == Cardinality({i \in 1..Len(sorted) : scoreOf(sorted[i]) > scoreOf(f)})
    IN  SubSeq(sorted, 1, k) \o <<f>> \o SubSeq(sorted, k + 1, Len(sorted))

insertByScore(sorted, f) ==
    LET k == Cardinality({i \in 1..Len(sorted) : scoreOf(sorted[i]) >= scoreOf(f)})
    IN  SubSeq(sorted, 1, k) \o <<f>> \o SubSeq(sorted, k + 1, Len(sorted))

RECURSIVE sortFrom(_, _, _)
sortFrom(fs, i, sorted) ==
    IF i > Len(fs) THEN sorted ELSE sortFrom(fs, i + 1, insertByScore(sorted, fs[i]))

sortByScore(fs) == sortFrom(fs, 1, <<>>)

minedCandidates(seq, nums, mode) ==
    LET outs == outsOf(mode)
    IN  streakRules(seq, outs) \o ngramRules(seq, outs) \o freqRules(seq, outs)
          \o altRules(seq, outs) \o transitionRules(seq, outs)
          \o clusterRules(seq, nums, mode) \o repeatRules(seq, outs)

\* A miner without the guard on the length of the history
extractRulesAnyLength(history, mode) ==
    LET f == extractFeatures(history, mode)
    IN  LET sorted == sortByScore(minedCandidates(f.seq, f.nums, mode))
        IN  SubSeq(sorted, 1, Min(Len(sorted), MAX_FORMULAS))

extractRules(history, mode) ==
    LET f == extractFeatures(history, mode)
    IN  IF Len(f.seq) < MIN_HISTORY THEN <<>>
        ELSE LET sorted == sortByScore(minedCandidates(f.seq, f.nums, mode))
             IN  SubSeq(sorted, 1, Min(Len(sorted), MAX_FORMULAS))

\* ------------------------------------------------------------------------
\* Applying a formula set (applyFormulas)
\* ------------------------------------------------------------------------
\* The least element of a finite set of positions; 0 if it is empty
least(S) == IF S = {} THEN 0 ELSE CHOOSE p \in S : \A q \in S : p <= q

\* The leftmost position of s at which a regular expression matches; 0 if none
firstMatch(s, matchesAt(_)) == least({p \in 1..Len(s) : matchesAt(p)})

\* The text of s from position p, n characters long
Text(s, p, n) == SubSeq(s, p, p + n - 1)

\* The word (\w+) and the number (\d+) that start at position p
WordAt(s, p) == Text(s, p, WordRun(s, p))

NumberAt(s, p) == parseInt(Text(s, p, DigitRun(s, p)))

\* /last (\d+) results = (\w+)/ : the position after the digits, given
\* that they start at p
afterDigits(c, p) == p + DigitRun(c, p)

streakRegexAt(c, p) ==
    /\ HasAt(c, p, "last ")
    /\ DigitRun(c, p + Len("last ")) >= 1
    /\ HasAt(c, afterDigits(c, p + Len("last ")), " results = ")
    /\ WordRun(c, afterDigits(c, p + Len("last ")) + Len(" results = ")) >= 1

streakGroups(c, p) ==
    IF p = 0 THEN <<>>
    ELSE << [len |-> NumberAt(c, p + Len("last ")),
             val |-> WordAt(c, afterDigits(c, p + Len("last ")) + Len(" results = "))] >>

streakRegex(c) == streakGroups(c, firstMatch(c, LAMBDA q : streakRegexAt(c, q)))

\* /(\d+)gram/ on the type
gramRegexAt(t, p) == DigitRun(t, p) >= 1 /\ HasAt(t, afterDigits(t, p), "gram")

gramGroups(t, p) == IF p = 0 THEN <<>> ELSE << NumberAt(t, p) >>

gramRegex(t) == gramGroups(t, firstMatch(t, LAMBDA q : gramRegexAt(t, q)))

\* /\[(.+)\]/ : from the first "[" to the last "]" after it, at least one
\* character between them
greatest(S) == CHOOSE q \in S : \A r \in S : q >= r

closesAfter(c, open) == {q \in (open + 2)..Len(c) : CharAt(c, q) = "]"}

bracketGroups(c, open) ==
    IF open = 0 THEN <<>> ELSE << SubSeq(c, open + 1, greatest(closesAfter(c, open)) - 1) >>

bracketRegex(c) ==
    bracketGroups(c, least({p \in 1..Len(c) : CharAt(c, p) = "[" /\ closesAfter(c, p) # {}}))

\* /(\w+) >= (\d+)% in last (\d+)/  (>= stands for U+2265)
afterWord(c, p) == p + WordRun(c, p)

freqThresholdAt(c, p) == afterWord(c, p) + Len(" " \o GeSign \o " ")

freqWindowAt(c, p) == afterDigits(c, freqThresholdAt(c, p)) + Len("% in last ")

freqRegexAt(c, p) ==
    /\ WordRun(c, p) >= 1
    /\ HasAt(c, afterWord(c, p), " " \o GeSign \o " ")
    /\ DigitRun(c, freqThresholdAt(c, p)) >= 1
    /\ HasAt(c, afterDigits(c, freqThresholdAt(c, p)), "% in last ")
    /\ DigitRun(c, freqWindowAt(c, p)) >= 1

freqGroups(c, p) ==
    IF p = 0 THEN <<>>
    ELSE << [val       |-> WordAt(c, p),
             threshold |-> NumberAt(c, freqThresholdAt(c, p)),
             window    |-> NumberAt(c, freqWindowAt(c, p))] >>

freqRegex(c) == freqGroups(c, firstMatch(c, LAMBDA q : freqRegexAt(c, q)))

\* /last (\d+) alternate/ and /last (\d+) numbers/
lastCountRegexAt(c, p, word) ==
    /\ HasAt(c, p, "last ")
    /\ DigitRun(c, p + Len("last ")) >= 1
    /\ HasAt(c, afterDigits(c, p + Len("last ")), " " \o word)

lastCountGroups(c, p) == IF p = 0 THEN <<>> ELSE << NumberAt(c, p + Len("last ")) >>

lastCountRegex(c, word) ==
    lastCountGroups(c, firstMatch(c, LAMBDA q : lastCountRegexAt(c, q, word)))

\* /last result = (\w+)/
transitionRegexAt(c, p) ==
    HasAt(c, p, "last result = ") /\ WordRun(c, p + Len("last result = ")) >= 1

transitionGroups(c, p) == IF p = 0 THEN <<>> ELSE << WordAt(c, p + Len("last result = ")) >>

transitionRegex(c) == transitionGroups(c, firstMatch(c, LAMBDA q : transitionRegexAt(c, q)))

\* /(\w+) repeated (\d+)x twice/
repeatRegexAt(c, p) ==
    /\ WordRun(c, p) >= 1
    /\ HasAt(c, afterWord(c, p), " repeated ")
    /\ DigitRun(c, afterWord(c, p) + Len(" repeated ")) >= 1
    /\ HasAt(c, afterDigits(c, afterWord(c, p) + Len(" repeated ")), "x twice")

repeatGroups(c, p) ==
    IF p = 0 THEN <<>>
    ELSE << [val    |-> WordAt(c, p),
             repLen |-> NumberAt(c, afterWord(c, p) + Len(" repeated "))] >>

repeatRegex(c) == repeatGroups(c, firstMatch(c, LAMBDA q : repeatRegexAt(c, q)))

\* tail.every(v => v === val)
every(arr, val) == \A i \in 1..Len(arr) : arr[i] = val

\* The result of one case of the switch, given the match m of its regular
\* expression: <<prediction>> when the case returns, <<>> when it breaks.
streakCase(formula, seq, m) ==
    IF m # <<>> /\ Len(seq) >= m[1].len /\ every(LastN(seq, m[1].len), m[1].val)
    THEN <<formula.prediction>> ELSE <<>>

applyStreak(formula, seq) == streakCase(formula, seq, streakRegex(formula.condition))

ngramCase(formula, seq, nMatch, cond) ==
    IF /\ nMatch # <<>>
       /\ Len(seq) >= nMatch[1]
       /\ cond # <<>>
       /\ cond[1] = join(LastN(seq, nMatch[1]))
    THEN <<formula.prediction>> ELSE <<>>

applyNgram(formula, seq) ==
    ngramCase(formula, seq, gramRegex(formula.type), bracketRegex(formula.condition))

frequencyCase(formula, seq, m) ==
    IF /\ m # <<>>
       /\ Len(seq) >= m[1].window
       /\ dominates(LastN(seq, m[1].window), m[1].val, m[1].window, m[1].threshold)
    THEN <<formula.prediction>> ELSE <<>>

applyFrequency(formula, seq) == frequencyCase(formula, seq, freqRegex(formula.condition))

alternates(tail) == \A i \in 1..(Len(tail) - 1) : At(tail, i) # At(tail, i - 1)

\* A case that returns the stored value of the formula
alternationCaseSymbolic(seq, outs, m) ==
    IF m # <<>> /\ Len(seq) >= m[1] /\ alternates(LastN(seq, m[1]))
    THEN <<"CONTINUE_ALT">> ELSE <<>>

alternationCase(seq, outs, m) ==
    IF m # <<>> /\ Len(seq) >= m[1] /\ alternates(LastN(seq, m[1]))
    THEN <<oppositeOf(At(seq, Len(seq) - 1), outs)>> ELSE <<>>

applyAlternation(formula, seq, outs) ==
    alternationCase(seq, outs, lastCountRegex(formula.condition, "alternate"))

transitionCase(formula, seq, m) ==
    IF m # <<>> /\ Len(seq) > 0 /\ At(seq, Len(seq) - 1) = m[1]
    THEN <<formula.prediction>> ELSE <<>>

applyTransition(formula, seq) == transitionCase(formula, seq, transitionRegex(formula.condition))

clusterCase(nums, m) ==
    IF m # <<>> /\ Len(nums) >= m[1]
    THEN IF avgLow(LastN(nums, m[1]), m[1]) THEN <<"SMALL">>
         ELSE IF avgHigh(LastN(nums, m[1]), m[1]) THEN <<"BIG">>
         ELSE <<>>
    ELSE <<>>

applyCluster(formula, nums) == clusterCase(nums, lastCountRegex(formula.condition, "numbers"))

\* A case that looks at one block of repLen labels only
repeatCaseSingle(formula, seq, m) ==
    IF /\ m # <<>>
       /\ Len(seq) >= m[1].repLen
       /\ every(LastN(seq, m[1].repLen), m[1].val)
    THEN <<formula.prediction>> ELSE <<>>

repeatCase(formula, seq, m) ==
    IF /\ m # <<>>
       /\ Len(seq) >= m[1].repLen * 2
       /\ every(LastN(seq, m[1].repLen * 2), m[1].val)
    THEN <<formula.prediction>> ELSE <<>>

applyRepeat(formula, seq) == repeatCase(formula, seq, repeatRegex(formula.condition))

\* switch (formula.type)
applyOne(formula, seq, nums, outs) ==
    CASE formula.type = "streak_reversal" -> applyStreak(formula, seq)
      [] formula.type \in {"2gram_pattern", "3gram_pattern", "4gram_pattern", "5gram_pattern"}
                                          -> applyNgram(formula, seq)
      [] formula.type = "frequency_imbalance" -> applyFrequency(formula, seq)
      [] formula.type = "alternation"     -> applyAlternation(formula, seq, outs)
      [] formula.type = "transition"      -> applyTransition(formula, seq)
      [] formula.type = "number_clustering" -> applyCluster(formula, nums)
      [] formula.type = "double_repeat"   -> applyRepeat(formula, seq)
      [] OTHER -> <<>>

\* The results of the cases of the formulas, in order
caseResults(formulas, seq, nums, outs) ==
    [i \in 1..Len(formulas) |-> applyOne(formulas[i], seq, nums, outs)]

\* The index of the last formula whose case returns; 0 if none
lastApplicable(results) ==
    IF \A i \in 1..Len(results) : results[i] = <<>> THEN 0
    ELSE CHOOSE i \in 1..Len(results) :
            results[i] # <<>> /\ \A j \in (i + 1)..Len(results) : results[j] = <<>>

\* The index of the first formula whose case returns; 0 if none
firstApplicable(results) == least({i \in 1..Len(results) : results[i] # <<>>})

\* A fallback that repeats the last label
applyFallbackRepeat(seq, outs) ==
    IF Len(seq) > 0 THEN At(seq, Len(seq) - 1) ELSE outs[2]

\* The fallback after the loop
applyFallback(seq, outs) ==
    IF Len(seq) > 0 THEN oppositeOf(At(seq, Len(seq) - 1), outs) ELSE outs[1]

\* { prediction, formula } given the case results and the first hit
applyResult(formulas, results, hit, seq, outs) ==
    IF hit # 0
    THEN [prediction |-> results[hit][1], formula |-> <<formulas[hit]>>]
    ELSE [prediction |-> applyFallback(seq, outs), formula |-> <<>>]

applyWith(formulas, results, seq, outs) ==
    applyResult(formulas, results, firstApplicable(results), seq, outs)

applyFeatures(formulas, f, outs) ==
    applyWith(formulas, caseResults(formulas, f.seq, f.nums, outs), f.seq, outs)

\* { prediction, formula }: formula is <<the formula>>, or <<>> for null
applyFormulas(formulas, history, mode) ==
    applyFeatures(formulas, extractFeatures(history, mode), outsOf(mode))

\* ------------------------------------------------------------------------
\* The store and the handler's helpers
\* ------------------------------------------------------------------------
\* null is <<>>, a present value v is <<v>>
null == <<>>

\* The elements of an array, as a set
Range(arr) == {arr[i] : i \in 1..Len(arr)}

\* ORDER BY issue_number on a TEXT column: character by character
charRank(c) == IF IsDigit(c) THEN DigitVal(c) ELSE 10

RECURSIVE textLess(_, _)
textLess(a, b) ==
    IF Len(b) = 0 THEN FALSE
    ELSE IF Len(a) = 0 THEN TRUE
    ELSE IF CharAt(a, 1) = CharAt(b, 1)
         THEN textLess(SubSeq(a, 2, Len(a)), SubSeq(b, 2, Len(b)))
         ELSE charRank(CharAt(a, 1)) < charRank(CharAt(b, 1))

\* ROW_NUMBER() OVER (ORDER BY issue_number DESC) of row r among rows
rowNumberDesc(rows, r) ==
    1 + Cardinality({t \in rows : textLess(r.issue_number, t.issue_number)})

\* DELETE ... WHERE id NOT IN (SELECT id ... ORDER BY issue_number DESC LIMIT n)
keepLatest(rows, n) == {r \in rows : rowNumberDesc(rows, r) <= n}

\* trim_game_results()
trim_game_results(rows) == keepLatest(rows, TRIM_GAME_RESULTS)

\* A trim that keeps the oldest rows of each mode
trimPredictionsOldest(rows) ==
    {r \in rows :
        Cardinality({t \in rows : t.mode = r.mode /\ textLess(t.issue_number, r.issue_number)})
            < TRIM_PREDICTIONS}

\* trim_predictions(): ROW_NUMBER() OVER (PARTITION BY mode ORDER BY issue_number DESC)
trim_predictions(rows) ==
    {r \in rows : rowNumberDesc({t \in rows : t.mode = r.mode}, r) <= TRIM_PREDICTIONS}

\* SELECT * ... ORDER BY issue_number ASC
RECURSIVE orderAscending(_)
orderAscending(rows) ==
    IF rows = {} THEN <<>>
    ELSE LET first == CHOOSE r \in rows : \A t \in rows : ~textLess(t.issue_number, r.issue_number)
         IN  <<first>> \o orderAscending(rows \ {first})

\* upsert(rows, { onConflict: "issue_number", ignoreDuplicates: true })
\* on game_results (issue_number UNIQUE): INSERT ... ON CONFLICT DO NOTHING,
\* row by row
gameConflict(table, r) == \E t \in table : t.issue_number = r.issue_number

\* An upsert that replaces the stored row of the period
overwriteGameRows(table, rows) ==
    {t \in table : \A r \in Range(rows) : r.issue_number # t.issue_number}
      \cup {rows[Len(rows)]}

RECURSIVE upsertGameRows(_, _)
upsertGameRows(table, rows) ==
    IF Len(rows) = 0 THEN table
    ELSE upsertGameRows(IF gameConflict(table, Head(rows)) THEN table
                        ELSE table \cup {Head(rows)},
                        Tail(rows))

\* upsert(newPredictions, { onConflict: "issue_number,mode", ignoreDuplicates: true })
\* on predictions (UNIQUE (issue_number, mode))
predictionConflict(table, r) ==
    \E t \in table : t.issue_number = r.issue_number /\ t.mode = r.mode

\* An upsert that overwrites the stored record of the key
replacePredictionRows(table, rows) ==
    {t \in table : \A r \in Range(rows) : ~(t.issue_number = r.issue_number /\ t.mode = r.mode)}
      \cup Range(rows)

\* An insert that ignores the key
insertPredictionRows(table, rows) == table \cup Range(rows)

RECURSIVE upsertPredictionRows(_, _)
upsertPredictionRows(table, rows) ==
    IF Len(rows) = 0 THEN table
    ELSE upsertPredictionRows(IF predictionConflict(table, Head(rows)) THEN table
                              ELSE table \cup {Head(rows)},
                              Tail(rows))

\* apiList.map(item => ({ issue_number, number: parseInt(item.number, 10), color }))
rowsOf(list) ==
    [i \in 1..Len(list) |->
        [issue_number |-> list[i].issueNumber,
         number       |-> parseInt(list[i].number),
         color        |-> list[i].color]]

\* `${issue_number}|${mode}`
keyOf(issue, mode) == issue \o "|" \o mode

\* predMap after the forEach over the selected predictions
predMapOf(rows) ==
    [k \in {keyOf(r.issue_number, r.mode) : r \in rows} |->
        LET r == CHOOSE t \in rows : keyOf(t.issue_number, t.mode) = k
        IN  [prediction |-> r.prediction, correct |-> r.correct]]

has(map, key) == key \in DOMAIN map

\* A resolution that compares the wrong way round
correctUpdateInverted(map, result, m) ==
    IF has(map, keyOf(result.issue_number, m)) /\ map[keyOf(result.issue_number, m)].correct = null
    THEN << [issue_number |-> result.issue_number,
             mode         |-> m,
             correct      |-> (map[keyOf(result.issue_number, m)].prediction # labelOf(result, m))] >>
    ELSE <<>>

\* Step 6: the updates of the correct field, in the order of the two loops
correctUpdateFor(map, result, m) ==
    LET key == keyOf(result.issue_number, m)
    IN  IF has(map, key) /\ map[key].correct = null
        THEN << [issue_number |-> result.issue_number,
                 mode         |-> m,
                 correct      |-> (map[key].prediction = labelOf(result, m))] >>
        ELSE <<>>

correctUpdatesOf(map, results) ==
    Flatten([i \in 1..Len(results) |->
        Flatten([j \in 1..2 |-> correctUpdateFor(map, results[i], Modes[j])])])

\* predMap.set(key, { ...existing, correct: isCorrect }) for every update
resolvedMap(map, results) ==
    LET upd == correctUpdatesOf(map, results)
    IN  [k \in DOMAIN map |->
           IF \E u \in Range(upd) : keyOf(u.issue_number, u.mode) = k
           THEN LET u == CHOOSE u \in Range(upd) : keyOf(u.issue_number, u.mode) = k
                IN  [map[k] EXCEPT !.correct = <<u.correct>>]
           ELSE map[k]]

\* BigInt(s) succeeds, for s made of digits and letters: a string of
\* decimal digits ("" is 0n)
isDecimal(s) == \A i \in 1..Len(s) : IsDigit(CharAt(s, i))

\* The decimal string of n + 1, n given by its digits
RECURSIVE incrementDecimal(_)
incrementDecimal(s) ==
    IF Len(s) = 0 THEN "1"
    ELSE LET d == DigitVal(CharAt(s, Len(s)))
         IN  IF d < 9 THEN SubSeq(s, 1, Len(s) - 1) \o ToString(d + 1)
             ELSE incrementDecimal(SubSeq(s, 1, Len(s) - 1)) \o "0"

\* A conversion that keeps leading zeros
keepZeros(s) == s

\* BigInt drops leading zeros
RECURSIVE stripZeros(_)
stripZeros(s) ==
    IF Len(s) > 0 /\ CharAt(s, 1) = "0" THEN stripZeros(SubSeq(s, 2, Len(s))) ELSE s

\* Step 7: (BigInt(latestIssue) + 1n).toString(), or latestIssue + "?"
nextIssueOf(latestIssue) ==
    IF isDecimal(latestIssue) THEN incrementDecimal(stripZeros(latestIssue))
    ELSE latestIssue \o "?"

latestIssueOf(results) == results[Len(results)].issue_number

\* Step 9: the prediction backfilled from the records before a period
backfillPrediction(prior, m) ==
    LET seq == extractFeatures(prior, m).seq
    IN  IF At(seq, Len(seq) - 1) = (IF m = "color" THEN "RED" ELSE "GREEN")
        THEN (IF m = "color" THEN "GREEN" ELSE "SMALL")
        ELSE (IF m = "color" THEN "RED" ELSE "BIG")

\* allResults.indexOf(result): the first index holding the row
indexOf(results, result) ==
    (CHOOSE i \in 1..Len(results) :
        results[i] = result /\ \A j \in 1..(i - 1) : results[j] # result) - 1

\* A backfill that reads the whole history
backfillForWholeHistory(map, results, result, m) ==
    IF ~has(map, keyOf(result.issue_number, m))
       /\ indexOf(results, result) >= MIN_BACKFILL_PRIOR
    THEN << [issue_number    |-> result.issue_number,
             mode            |-> m,
             prediction      |-> backfillPrediction(results, m),
             correct         |-> <<backfillPrediction(results, m) = labelOf(result, m)>>,
             formula_applied |-> null] >>
    ELSE <<>>

backfillFor(map, results, result, m) ==
    LET prior == Slice(results, 0, indexOf(results, result))
        pred  == backfillPrediction(prior, m)
    IN  IF ~has(map, keyOf(result.issue_number, m)) /\ Len(prior) >= MIN_BACKFILL_PRIOR
        THEN << [issue_number    |-> result.issue_number,
                 mode            |-> m,
                 prediction      |-> pred,
                 correct         |-> <<pred = labelOf(result, m)>>,
                 formula_applied |-> null] >>
        ELSE <<>>

backfill(map, results) ==
    Flatten([i \in 1..Len(results) |->
        Flatten([j \in 1..2 |-> backfillFor(map, results, results[i], Modes[j])])])

\* The final fallback of step 8
finalFallback(results, m) ==
    LET seq == extractFeatures(results, m).seq
    IN  IF At(seq, Len(seq) - 1) = (IF m = "color" THEN "RED" ELSE "BIG")
        THEN (IF m = "color" THEN "GREEN" ELSE "SMALL")
        ELSE (IF m = "color" THEN "RED" ELSE "BIG")

\* formulas.find(f => f.prediction === pred) || null
firstWithPrediction(fs, pred) == least({i \in 1..Len(fs) : fs[i].prediction = pred})

findByPrediction(fs, pred) ==
    IF firstWithPrediction(fs, pred) = 0 THEN null ELSE << fs[firstWithPrediction(fs, pred)] >>

\* aiPred is a usable answer: if (aiPred) { ... }
isTruthy(aiPred) == aiPred # null /\ aiPred[1] # ""

\* A choice that ignores the formulas when the adjudicator gives nothing
chosenPredictionNoRules(fs, results, m, aiPred, applied) ==
    IF isTruthy(aiPred) THEN aiPred[1] ELSE finalFallback(results, m)

\* The prediction and the formula recorded for the next period, given the
\* result of applyFormulas: aiPred is the adjudicator's answer (null when it
\* was not asked or gave none)
chosenPrediction(fs, results, m, aiPred, applied) ==
    IF isTruthy(aiPred) THEN aiPred[1]
    ELSE IF Len(fs) > 0 THEN applied.prediction
    ELSE finalFallback(results, m)

chosenFormula(fs, aiPred, applied) ==
    IF isTruthy(aiPred) THEN findByPrediction(fs, aiPred[1])
    ELSE IF Len(fs) > 0 THEN applied.formula
    ELSE null

predictionRow(issue, m, prediction, formula) ==
    [issue_number    |-> issue,
     mode            |-> m,
     prediction      |-> prediction,
     correct         |-> null,
     formula_applied |-> formula]

forecastWith(fs, results, m, aiPred, applied) ==
    predictionRow(nextIssueOf(latestIssueOf(results)), m,
                  chosenPrediction(fs, results, m, aiPred, applied),
                  chosenFormula(fs, aiPred, applied))

\* The record pushed for the next period
forecastRecord(fs, results, m, aiPred) ==
    forecastWith(fs, results, m, aiPred, applyFormulas(fs, results, m))

\* ------------------------------------------------------------------------
\* Bounds of the model
\* ------------------------------------------------------------------------
\* periods the upstream feed publishes after its initial content
MaxNewPeriods == 3
\* invocations of the handler
MaxInvocations == 4
\* invocations of the handler when they may overlap
MaxOverlapping == 2
\* periods the upstream feed publishes while invocations may overlap
MaxOverlapPeriods == 1
\* answers of the adjudicator other than "no opinion"
MaxAiOpinions == 1
\* outcomes on one page of the upstream feed
PageSize == 10

\* periods appended after the first history of the engine on its own
MaxShifts == 1
\* invocations with no new period after the first of the engine on its own
MaxSamePeriod == 3
\* length of the longer histories of the engine on its own
LongLen == 40
\* invocations of the run in which a set reaches the failure threshold
MaxThresholdInvocations == 5
\* the first of them, which run one at a time
AloneFirst == 2
\* the longest history of tagged records
MaxTaggedLen == 2
\* The two invocations that may overlap
Procs == {1, 2}

\* ------------------------------------------------------------------------
\* The upstream feed
\* ------------------------------------------------------------------------
\* One item of apiJson.data.list
item(k, n, c) == [issueNumber |-> ToString(100 + k), number |-> ToString(n), color |-> c]

\* Outcomes a new period may have: one on each side of the SMALL/BIG
\* boundary, one of each colour label
Outcomes == {<<4, "red">>, <<5, "green,violet">>}

\* Initial contents of the feed: nothing published yet; a short history;
\* a full page (alternating colours, a run of SMALL then a run of BIG)
EmptyFeed == <<>>

ShortFeed == << item(7, 2, "red"), item(8, 6, "green"), item(9, 1, "red"), item(10, 9, "red") >>

FullFeedA ==
    << item(1, 1, "red"), item(2, 2, "green"), item(3, 3, "red"), item(4, 4, "green"),
       item(5, 0, "red,violet"), item(6, 1, "green"), item(7, 2, "red"), item(8, 8, "green"),
       item(9, 9, "red"), item(10, 7, "green") >>

Feeds == {EmptyFeed, ShortFeed, FullFeedA}

\* The page the API returns: the most recent outcomes
pageOf(f) == LastN(f, Min(Len(f), PageSize))

\* Answers of the adjudicator for a mode: a label of the mode, or a string
\* outside the enum
AiAnswers(m) == {outsOf(m)[1], outsOf(m)[2], "MAYBE"}

\* ------------------------------------------------------------------------
\* State
\* ------------------------------------------------------------------------
VARIABLES
    feed,            \* the outcomes the upstream feed has published, oldest first
    lovableApiKey,   \* Deno.env.get("LOVABLE_API_KEY") is set
    started,         \* invocations started so far
    aiOpinions,      \* adjudicator answers other than null so far
    game_results,    \* table game_results
    predictions,     \* table predictions
    formula_sets,    \* table formula_sets, in insertion order (id = index)
    pc,              \* per invocation: the await it is at
    apiList,         \* per invocation: apiJson.data.list
    allResults,      \* per invocation
    predMap,         \* per invocation
    correctUpdates,  \* per invocation: the updates of step 6
    updateIdx,       \* per invocation: how many of them have been sent
    modeIdx,         \* per invocation: position of the loop over the modes
    activeSet,       \* per invocation
    needsRetrain,    \* per invocation
    formulas,        \* per invocation
    newPredictions,  \* per invocation
    response         \* per invocation: the last response returned

envVars == <<feed, lovableApiKey, started, aiOpinions>>
tables == <<game_results, predictions, formula_sets>>
locals == <<apiList, allResults, predMap, correctUpdates, updateIdx, modeIdx, activeSet,
            needsRetrain, formulas, newPredictions>>
vars == <<envVars, tables, pc, locals, response>>

emptyMap == [k \in {} |-> null]

Init ==
    /\ feed \in Feeds
    /\ lovableApiKey \in BOOLEAN
    /\ started = 0
    /\ aiOpinions = 0
    /\ game_results = {}
    /\ predictions = {}
    /\ formula_sets = <<>>
    /\ pc = [p \in Procs |-> "idle"]
    /\ apiList = [p \in Procs |-> <<>>]
    /\ allResults = [p \in Procs |-> <<>>]
    /\ predMap = [p \in Procs |-> emptyMap]
    /\ correctUpdates = [p \in Procs |-> <<>>]
    /\ updateIdx = [p \in Procs |-> 0]
    /\ modeIdx = [p \in Procs |-> 1]
    /\ activeSet = [p \in Procs |-> null]
    /\ needsRetrain = [p \in Procs |-> FALSE]
    /\ formulas = [p \in Procs |-> <<>>]
    /\ newPredictions = [p \in Procs |-> <<>>]
    /\ response = [p \in Procs |-> "none"]

\* ------------------------------------------------------------------------
\* The upstream feed's steps.  The handler reads the feed only in its
\* fetch, so the feed moves only while an invocation is about to fetch.
\* ------------------------------------------------------------------------
lastPeriod(f) == IF Len(f) = 0 THEN 10 ELSE parseInt(f[Len(f)].issueNumber) - 100

\* A new period is published, up to limit periods after the initial content
publish(limit) ==
    /\ \E p \in Procs : pc[p] = "fetch"
    /\ lastPeriod(feed) < 10 + limit
    /\ \E o \in Outcomes :
          feed' = Append(feed, item(lastPeriod(feed) + 1, o[1], o[2]))
    /\ UNCHANGED <<lovableApiKey, started, aiOpinions, tables, pc, locals, response>>

FeedAdvance == publish(MaxNewPeriods)

FeedAdvanceOverlap == publish(MaxOverlapPeriods)

\* ------------------------------------------------------------------------
\* The handler (Deno.serve), one action per await
\* ------------------------------------------------------------------------
\* Where an invocation continues: the await it goes to, the position of the
\* mode loop, and the predictions pushed so far
stay(p, label) ==
    [pc |-> label, modeIdx |-> modeIdx[p], newPredictions |-> newPredictions[p]]

goto(p, r) ==
    /\ pc' = [pc EXCEPT ![p] = r.pc]
    /\ modeIdx' = [modeIdx EXCEPT ![p] = r.modeIdx]
    /\ newPredictions' = [newPredictions EXCEPT ![p] = r.newPredictions]

\* The invocation returns: its locals are dropped
finish(p, resp) ==
    /\ pc' = [pc EXCEPT ![p] = "idle"]
    /\ response' = [response EXCEPT ![p] = resp]
    /\ apiList' = [apiList EXCEPT ![p] = <<>>]
    /\ allResults' = [allResults EXCEPT ![p] = <<>>]
    /\ predMap' = [predMap EXCEPT ![p] = emptyMap]
    /\ correctUpdates' = [correctUpdates EXCEPT ![p] = <<>>]
    /\ updateIdx' = [updateIdx EXCEPT ![p] = 0]
    /\ modeIdx' = [modeIdx EXCEPT ![p] = 1]
    /\ activeSet' = [activeSet EXCEPT ![p] = null]
    /\ needsRetrain' = [needsRetrain EXCEPT ![p] = FALSE]
    /\ formulas' = [formulas EXCEPT ![p] = <<>>]
    /\ newPredictions' = [newPredictions EXCEPT ![p] = <<>>]

\* A mode loop without the test for a stored forecast
nextModeUnguarded(map, results, i) == IF i <= 2 THEN i ELSE 3

\* for (const m of ["color", "size"]) { if (predMap.has(key)) continue; ...
\* from index i on: the next mode that needs a forecast, or 3
nextModeFrom(map, results, i) ==
    LET todo == {j \in i..2 : ~has(map, keyOf(nextIssueOf(latestIssueOf(results)), Modes[j]))}
    IN  IF todo = {} THEN 3 ELSE CHOOSE j \in todo : \A k \in todo : j <= k

\* The loop of step 8 from index i on, with nps pushed so far; after the
\* loop, step 9 (backfill) and the choice of step 10
resume(map, results, i, nps) ==
    LET j   == nextModeFrom(map, results, i)
        all == nps \o backfill(map, results)
    IN  IF j <= 2 THEN [pc |-> "selectActive", modeIdx |-> j, newPredictions |-> nps]
        ELSE [pc |-> IF Len(all) > 0 THEN "upsertPredictions" ELSE "trimPredictions",
              modeIdx |-> 3, newPredictions |-> all]

\* The forecast of the current mode is pushed and the loop goes on
pushForecast(p, fs, aiPred) ==
    resume(predMap[p], allResults[p], modeIdx[p] + 1,
           Append(newPredictions[p],
                  forecastRecord(fs, allResults[p], Modes[modeIdx[p]], aiPred)))

\* PREDICT using formula set: ask the adjudicator when there is a key and
\* there are formulas, else predict directly
predictStage(p, fs) ==
    IF lovableApiKey /\ Len(fs) > 0 THEN stay(p, "aiEnhance") ELSE pushForecast(p, fs, null)

\* The handler is invoked
Start(p) ==
    /\ pc[p] = "idle"
    /\ started < MaxInvocations
    /\ started' = started + 1
    /\ pc' = [pc EXCEPT ![p] = "fetch"]
    /\ response' = [response EXCEPT ![p] = "pending"]
    /\ UNCHANGED <<feed, lovableApiKey, aiOpinions, tables, locals>>

\* The handler is invoked while no other invocation runs
StartAlone(p) ==
    /\ \A q \in Procs : pc[q] = "idle"
    /\ Start(p)

\* The handler is invoked, possibly while another invocation runs
StartOverlapping(p) ==
    /\ started < MaxOverlapping
    /\ Start(p)

\* The invocation that runs when invocations never overlap
Solo == CHOOSE p \in Procs : \A q \in Procs : p <= q

\* 1. Fetch from public API
fetchApi(p) ==
    /\ pc[p] = "fetch"
    /\ apiList' = [apiList EXCEPT ![p] = pageOf(feed)]
    /\ pc' = [pc EXCEPT ![p] = "upsertResults"]
    /\ UNCHANGED <<envVars, tables, allResults, predMap, correctUpdates, updateIdx, modeIdx,
                   activeSet, needsRetrain, formulas, newPredictions, response>>

\* An abort that comes after the page was written
fetchApiMalformedAfterUpsert(p) ==
    /\ pc[p] = "fetch"
    /\ game_results' = upsertGameRows(game_results, rowsOf(pageOf(feed)))
    /\ finish(p, "API error")
    /\ UNCHANGED <<envVars, predictions, formula_sets>>

\* apiJson.code !== 0 || !apiJson.data?.list
fetchApiMalformed(p) ==
    /\ pc[p] = "fetch"
    /\ finish(p, "API error")
    /\ UNCHANGED <<envVars, tables>>

\* 2. Upsert into game_results
upsertGameResults(p) ==
    /\ pc[p] = "upsertResults"
    /\ game_results' = upsertGameRows(game_results, rowsOf(apiList[p]))
    /\ pc' = [pc EXCEPT ![p] = "trimResults"]
    /\ UNCHANGED <<envVars, predictions, formula_sets, locals, response>>

\* 3. Trim game_results
trimGameResults(p) ==
    /\ pc[p] = "trimResults"
    /\ game_results' = trim_game_results(game_results)
    /\ pc' = [pc EXCEPT ![p] = "selectResults"]
    /\ UNCHANGED <<envVars, predictions, formula_sets, locals, response>>

\* 4. Get ALL stored results chronologically (oldest first)
selectGameResults(p) ==
    /\ pc[p] = "selectResults"
    /\ allResults' = [allResults EXCEPT ![p] = orderAscending(game_results)]
    /\ pc' = [pc EXCEPT ![p] = "selectPredictions"]
    /\ UNCHANGED <<envVars, tables, apiList, predMap, correctUpdates, updateIdx, modeIdx,
                   activeSet, needsRetrain, formulas, newPredictions, response>>

\* A read failure that is noticed only after the sets were deactivated
selectGameResultsFailsAfterDeactivate(p) ==
    /\ pc[p] = "selectResults"
    /\ finish(p, "DB read error")
    /\ formula_sets' =
         [i \in 1..Len(formula_sets) |-> [formula_sets[i] EXCEPT !.is_active = FALSE]]
    /\ UNCHANGED <<envVars, game_results, predictions>>

\* fetchErr || !allResults
selectGameResultsFails(p) ==
    /\ pc[p] = "selectResults"
    /\ finish(p, "DB read error")
    /\ UNCHANGED <<envVars, tables>>

\* 5. Get existing predictions, 6. compute the updates of correct, and, when
\* there is none to send, 7. the next period and the start of step 8.
\* With no stored result, allResults[allResults.length - 1] is undefined and
\* the handler returns from its catch.
selectPredictions(p) ==
    /\ pc[p] = "selectPredictions"
    /\ LET map0 == predMapOf(predictions)
           upd  == correctUpdatesOf(map0, allResults[p])
           map1 == resolvedMap(map0, allResults[p])
       IN  IF Len(allResults[p]) = 0
           THEN finish(p, "error")
           ELSE /\ predMap' = [predMap EXCEPT ![p] = map1]
                /\ correctUpdates' = [correctUpdates EXCEPT ![p] = upd]
                /\ IF Len(upd) > 0
                   THEN goto(p, stay(p, "updateCorrect"))
                   ELSE goto(p, resume(map1, allResults[p], 1, <<>>))
                /\ UNCHANGED <<apiList, allResults, updateIdx, activeSet, needsRetrain,
                               formulas, response>>
    /\ UNCHANGED <<envVars, tables>>

\* update({ correct: upd.correct }).eq("issue_number", ..).eq("mode", ..)
updateRows(table, upd) ==
    {IF r.issue_number = upd.issue_number /\ r.mode = upd.mode
     THEN [r EXCEPT !.correct = <<upd.correct>>] ELSE r : r \in table}

\* A step 6 that sends only the first of its updates
updateCorrectFirstOnly(p) ==
    /\ pc[p] = "updateCorrect"
    /\ predictions' = updateRows(predictions, correctUpdates[p][updateIdx[p] + 1])
    /\ updateIdx' = [updateIdx EXCEPT ![p] = updateIdx[p] + 1]
    /\ goto(p, resume(predMap[p], allResults[p], 1, <<>>))
    /\ UNCHANGED <<envVars, game_results, formula_sets, apiList, allResults, predMap,
                   correctUpdates, activeSet, needsRetrain, formulas, response>>

\* for (const upd of correctUpdates) { await ... }, one update per await
updateCorrect(p) ==
    /\ pc[p] = "updateCorrect"
    /\ predictions' = updateRows(predictions, correctUpdates[p][updateIdx[p] + 1])
    /\ updateIdx' = [updateIdx EXCEPT ![p] = updateIdx[p] + 1]
    /\ IF updateIdx[p] + 1 < Len(correctUpdates[p])
       THEN goto(p, stay(p, "updateCorrect"))
       ELSE goto(p, resume(predMap[p], allResults[p], 1, <<>>))
    /\ UNCHANGED <<envVars, game_results, formula_sets, apiList, allResults, predMap,
                   correctUpdates, activeSet, needsRetrain, formulas, response>>

\* The row the select of the active set returns:
\* .eq("mode", m).eq("is_active", true).order("extracted_at", desc).limit(1).maybeSingle()
activeSetOf(sets, m) ==
    LET ids == {i \in 1..Len(sets) : sets[i].mode = m /\ sets[i].is_active}
    IN  IF ids = {} THEN null ELSE << sets[CHOOSE i \in ids : \A j \in ids : i >= j] >>

\* const lastPred = predMap.get(lastPredKey); lastPred && lastPred.correct !== null
lastPredOf(map, results, m) ==
    LET key == keyOf(latestIssueOf(results), m)
    IN  IF has(map, key) /\ map[key].correct # null THEN <<map[key]>> ELSE null

\* A failure count that a correct prediction does not reset
newFailuresNoReset(set, lastPred) == set.consecutive_failures + 1

\* The counters written for the active set after the last prediction
newFailures(set, lastPred) ==
    IF lastPred.correct[1] THEN 0 ELSE set.consecutive_failures + 1

newCorrect(set, lastPred) ==
    IF lastPred.correct[1] THEN set.correct_predictions + 1 ELSE set.correct_predictions

newTotal(set) == set.total_predictions + 1

\* accuracy: newTotal > 0 ? newCorrect / newTotal : 0, as numerator and denominator
newAccuracy(set, lastPred) ==
    IF newTotal(set) > 0 THEN <<newCorrect(set, lastPred), newTotal(set)>> ELSE <<0, 1>>

\* Get active formula set for this mode
selectActive(p) ==
    /\ pc[p] = "selectActive"
    /\ LET m    == Modes[modeIdx[p]]
           set  == activeSetOf(formula_sets, m)
           last == lastPredOf(predMap[p], allResults[p], m)
           fs   == IF set = null THEN <<>> ELSE set[1].formulas
           retrain == IF set = null THEN TRUE
                      ELSE set[1].consecutive_failures >= MAX_CONSECUTIVE_FAILURES
       IN  /\ activeSet' = [activeSet EXCEPT ![p] = set]
           /\ formulas' = [formulas EXCEPT ![p] = fs]
           /\ needsRetrain' = [needsRetrain EXCEPT ![p] = retrain]
           /\ IF set # null /\ last # null THEN goto(p, stay(p, "updateCounters"))
              ELSE IF retrain THEN goto(p, stay(p, "deactivate"))
              ELSE goto(p, predictStage(p, fs))
    /\ UNCHANGED <<envVars, tables, apiList, allResults, predMap, correctUpdates, updateIdx, response>>

\* A counter update that does not look at the threshold
updateCountersNoThreshold(p) ==
    /\ pc[p] = "updateCounters"
    /\ formula_sets' =
         [i \in 1..Len(formula_sets) |->
             IF formula_sets[i].id = activeSet[p][1].id
             THEN [formula_sets[i] EXCEPT
                     !.consecutive_failures = formula_sets[i].consecutive_failures + 1,
                     !.total_predictions    = formula_sets[i].total_predictions + 1]
             ELSE formula_sets[i]]
    /\ IF needsRetrain[p] THEN goto(p, stay(p, "deactivate"))
       ELSE goto(p, predictStage(p, formulas[p]))
    /\ UNCHANGED <<envVars, game_results, predictions, apiList, allResults, predMap,
                   correctUpdates, updateIdx, activeSet, needsRetrain, formulas, response>>

\* A counter update that leaves the retrain to the check made before it
updateCountersLateRetrain(p) ==
    /\ pc[p] = "updateCounters"
    /\ LET set  == activeSet[p][1]
           last == lastPredOf(predMap[p], allResults[p], Modes[modeIdx[p]])[1]
       IN  /\ formula_sets' =
                [i \in 1..Len(formula_sets) |->
                    IF formula_sets[i].id = set.id
                    THEN [formula_sets[i] EXCEPT
                            !.consecutive_failures = newFailures(set, last),
                            !.correct_predictions  = newCorrect(set, last),
                            !.total_predictions    = newTotal(set),
                            !.accuracy             = newAccuracy(set, last)]
                    ELSE formula_sets[i]]
           /\ IF needsRetrain[p] THEN goto(p, stay(p, "deactivate"))
              ELSE goto(p, predictStage(p, formulas[p]))
    /\ UNCHANGED <<envVars, game_results, predictions, apiList, allResults, predMap,
                   correctUpdates, updateIdx, activeSet, needsRetrain, formulas, response>>

\* Update consecutive failures based on last prediction
updateCounters(p) ==
    /\ pc[p] = "updateCounters"
    /\ LET set  == activeSet[p][1]
           last == lastPredOf(predMap[p], allResults[p], Modes[modeIdx[p]])[1]
           retrain == needsRetrain[p] \/ newFailures(set, last) >= MAX_CONSECUTIVE_FAILURES
       IN  /\ formula_sets' =
                [i \in 1..Len(formula_sets) |->
                    IF formula_sets[i].id = set.id
                    THEN [formula_sets[i] EXCEPT
                            !.consecutive_failures = newFailures(set, last),
                            !.correct_predictions  = newCorrect(set, last),
                            !.total_predictions    = newTotal(set),
                            !.accuracy             = newAccuracy(set, last)]
                    ELSE formula_sets[i]]
           /\ needsRetrain' = [needsRetrain EXCEPT ![p] = retrain]
           /\ IF retrain THEN goto(p, stay(p, "deactivate"))
              ELSE goto(p, predictStage(p, formulas[p]))
    /\ UNCHANGED <<envVars, game_results, predictions, apiList, allResults, predMap,
                   correctUpdates, updateIdx, activeSet, formulas, response>>

\* A retrain that leaves the old formula sets active
deactivateNone(p) ==
    /\ pc[p] = "deactivate"
    /\ pc' = [pc EXCEPT ![p] = "insertSet"]
    /\ UNCHANGED <<envVars, tables, locals, response>>

\* Deactivate old formula sets
deactivate(p) ==
    /\ pc[p] = "deactivate"
    /\ formula_sets' =
         [i \in 1..Len(formula_sets) |->
             IF formula_sets[i].mode = Modes[modeIdx[p]]
             THEN [formula_sets[i] EXCEPT !.is_active = FALSE]
             ELSE formula_sets[i]]
    /\ pc' = [pc EXCEPT ![p] = "insertSet"]
    /\ UNCHANGED <<envVars, game_results, predictions, locals, response>>

\* A mined set that is stored without being activated
newFormulaSetInactive(id, m, fs) ==
    [id                   |-> id,
     mode                 |-> m,
     formulas             |-> fs,
     accuracy             |-> <<0, 1>>,
     total_predictions    |-> 0,
     correct_predictions  |-> 0,
     consecutive_failures |-> 0,
     is_active            |-> FALSE]

\* The row inserted for a newly mined set
newFormulaSet(id, m, fs) ==
    [id                   |-> id,
     mode                 |-> m,
     formulas             |-> fs,
     accuracy             |-> <<0, 1>>,
     total_predictions    |-> 0,
     correct_predictions  |-> 0,
     consecutive_failures |-> 0,
     is_active            |-> TRUE]

\* A retrain that mines without the oldest record once a set is stored
insertSetFromTail(p) ==
    /\ pc[p] = "insertSet"
    /\ LET m  == Modes[modeIdx[p]]
           fs == extractRules(IF Len(formula_sets) < 2 THEN allResults[p]
                              ELSE SubSeq(allResults[p], 2, Len(allResults[p])), m)
       IN  /\ formula_sets' = Append(formula_sets, newFormulaSet(Len(formula_sets) + 1, m, fs))
           /\ formulas' = [formulas EXCEPT ![p] = fs]
           /\ goto(p, predictStage(p, fs))
    /\ UNCHANGED <<envVars, game_results, predictions, apiList, allResults, predMap,
                   correctUpdates, updateIdx, activeSet, needsRetrain, response>>

\* Extract new formulas and store the new formula set
insertSet(p) ==
    /\ pc[p] = "insertSet"
    /\ LET m  == Modes[modeIdx[p]]
           fs == extractRules(allResults[p], m)
       IN  /\ formula_sets' = Append(formula_sets, newFormulaSet(Len(formula_sets) + 1, m, fs))
           /\ formulas' = [formulas EXCEPT ![p] = fs]
           /\ goto(p, predictStage(p, fs))
    /\ UNCHANGED <<envVars, game_results, predictions, apiList, allResults, predMap,
                   correctUpdates, updateIdx, activeSet, needsRetrain, response>>

\* aiEnhanceRules returns null: no key use, an error status, a throw, or no tool call
aiEnhanceNone(p) ==
    /\ pc[p] = "aiEnhance"
    /\ goto(p, pushForecast(p, formulas[p], null))
    /\ UNCHANGED <<envVars, tables, apiList, allResults, predMap, correctUpdates, updateIdx,
                   activeSet, needsRetrain, formulas, response>>

\* aiEnhanceRules returns args.prediction
aiEnhanceAnswer(p) ==
    /\ pc[p] = "aiEnhance"
    /\ aiOpinions < MaxAiOpinions
    /\ aiOpinions' = aiOpinions + 1
    /\ \E a \in AiAnswers(Modes[modeIdx[p]]) : goto(p, pushForecast(p, formulas[p], <<a>>))
    /\ UNCHANGED <<feed, lovableApiKey, started, tables, apiList, allResults,
                   predMap, correctUpdates, updateIdx, activeSet, needsRetrain, formulas, response>>

\* 10. Insert all new predictions
upsertPredictions(p) ==
    /\ pc[p] = "upsertPredictions"
    /\ predictions' = upsertPredictionRows(predictions, newPredictions[p])
    /\ pc' = [pc EXCEPT ![p] = "trimPredictions"]
    /\ UNCHANGED <<envVars, game_results, formula_sets, locals, response>>

\* 11. Trim predictions, and the response
trimPredictions(p) ==
    /\ pc[p] = "trimPredictions"
    /\ predictions' = trim_predictions(predictions)
    /\ finish(p, "success")
    /\ UNCHANGED <<envVars, game_results, formula_sets>>

\* One step of invocation p after its start, the adjudicator aside
storeStep(p) ==
    \/ fetchApi(p)
    \/ fetchApiMalformed(p)
    \/ upsertGameResults(p)
    \/ trimGameResults(p)
    \/ selectGameResults(p)
    \/ selectGameResultsFails(p)
    \/ selectPredictions(p)
    \/ updateCorrect(p)
    \/ selectActive(p)
    \/ updateCounters(p)
    \/ deactivate(p)
    \/ insertSet(p)
    \/ upsertPredictions(p)
    \/ trimPredictions(p)

\* One step of invocation p after its start
handlerStep(p) ==
    \/ storeStep(p)
    \/ aiEnhanceNone(p)
    \/ aiEnhanceAnswer(p)

\* Invocations never overlap: each one returns before the next starts
Next ==
    \/ FeedAdvance
    \/ StartAlone(Solo)
    \/ handlerStep(Solo)

Spec == Init /\ [][Next]_vars

\* The handler is invoked again after an invocation that returned success,
\* while the page of the feed holds no period that is not stored; it is
\* the last invocation of the run, marked by started = MaxInvocations + 1
StartRerun(p) ==
    /\ \A q \in Procs : pc[q] = "idle"
    /\ started \in 1..MaxInvocations
    /\ response[p] = "success"
    /\ \A i \in 1..Len(pageOf(feed)) :
          \E g \in game_results : g.issue_number = pageOf(feed)[i].issueNumber
    /\ started' = MaxInvocations + 1
    /\ pc' = [pc EXCEPT ![p] = "fetch"]
    /\ response' = [response EXCEPT ![p] = "pending"]
    /\ UNCHANGED <<feed, lovableApiKey, aiOpinions, tables, locals>>

NextRerun ==
    \/ started <= MaxInvocations /\ FeedAdvance
    \/ StartAlone(Solo)
    \/ StartRerun(Solo)
    \/ handlerStep(Solo)

SpecRerun == Init /\ [][NextRerun]_vars

\* Invocations may overlap; LOVABLE_API_KEY is not set, so the adjudicator
\* is never asked
InitOverlap == Init /\ ~lovableApiKey

NextOverlap ==
    \/ FeedAdvanceOverlap
    \/ \E p \in Procs : StartOverlapping(p)
    \/ \E p \in Procs : storeStep(p)

SpecOverlap == InitOverlap /\ [][NextOverlap]_vars

\* Invocations may overlap on a full page with LOVABLE_API_KEY set, so the
\* adjudicator may give one of them a label the rules do not give.  No
\* period is published meanwhile, so step 6 has no update to send, and
\* the requests to the feed and to the store succeed.
InitRace == Init /\ feed = FullFeedA /\ lovableApiKey

\* The store starts empty and the feed does not advance, so no record of
\* the latest period is ever resolved and the counter update (l.638-657)
\* has nothing to count.
raceStep(p) ==
    \/ fetchApi(p)
    \/ upsertGameResults(p)
    \/ trimGameResults(p)
    \/ selectGameResults(p)
    \/ selectPredictions(p)
    \/ selectActive(p)
    \/ deactivate(p)
    \/ insertSet(p)
    \/ aiEnhanceNone(p)
    \/ aiEnhanceAnswer(p)
    \/ upsertPredictions(p)
    \/ trimPredictions(p)

NextRace ==
    \/ \E p \in Procs : StartOverlapping(p)
    \/ \E p \in Procs : raceStep(p)

SpecRace == InitRace /\ [][NextRace]_vars

\* A first invocation runs alone and returns; the invocations after it may
\* overlap (two clients reaching the trigger second together)
StartAfterFirst(p) ==
    /\ started <= 1 => \A q \in Procs : pc[q] = "idle"
    /\ started < 1 + MaxOverlapping
    /\ Start(p)

NextAfterFirst ==
    \/ FeedAdvanceOverlap
    \/ \E p \in Procs : StartAfterFirst(p)
    \/ \E p \in Procs : storeStep(p)

SpecAfterFirst == InitOverlap /\ [][NextAfterFirst]_vars

\* A run in which the forecasts of color fail twice and then succeed: the
\* short history, then periods 111 and 112 red again and period 113 green.
\* The first invocations run one at a time, the later ones may overlap.
thresholdOutcome(k) == IF k <= 12 THEN <<4, "red">> ELSE <<5, "green,violet">>

publishThreshold ==
    /\ \E p \in Procs : pc[p] = "fetch"
    /\ lastPeriod(feed) < 10 + MaxNewPeriods
    /\ feed' = Append(feed, item(lastPeriod(feed) + 1,
                                 thresholdOutcome(lastPeriod(feed) + 1)[1],
                                 thresholdOutcome(lastPeriod(feed) + 1)[2]))
    /\ UNCHANGED <<lovableApiKey, started, aiOpinions, tables, pc, locals, response>>

StartThreshold(p) ==
    /\ started <= AloneFirst => \A q \in Procs : pc[q] = "idle"
    /\ started < MaxThresholdInvocations
    /\ pc[p] = "idle"
    /\ started' = started + 1
    /\ pc' = [pc EXCEPT ![p] = "fetch"]
    /\ response' = [response EXCEPT ![p] = "pending"]
    /\ UNCHANGED <<feed, lovableApiKey, aiOpinions, tables, locals>>

InitThreshold == Init /\ feed = ShortFeed /\ ~lovableApiKey

NextThreshold ==
    \/ publishThreshold
    \/ \E p \in Procs : StartThreshold(p)
    \/ \E p \in Procs : storeStep(p)

SpecThreshold == InitThreshold /\ [][NextThreshold]_vars

\* ------------------------------------------------------------------------
\* The two keyed writes on their own: pages and batches drawn from small
\* sets, written by the handler's upserts
\* ------------------------------------------------------------------------
\* Items of a page: two periods, each with either payload
WrittenItems == {item(k, n, "red") : k \in {1, 2}, n \in {2, 7}}

\* One item, or two items of the same period with different payloads
ObservationPages ==
    {<<a>> : a \in WrittenItems}
      \cup {pg \in WrittenItems \X WrittenItems :
                pg[1].issueNumber = pg[2].issueNumber /\ pg[1] # pg[2]}

\* Forecast rows of one period: both modes, each with either label
WrittenPredictions ==
    {predictionRow(ToString(101), Modes[j], outsOf(Modes[j])[o], null) : j \in 1..2, o \in 1..2}

\* One row, or two rows of the same key with different payloads
PredictionBatches ==
    {<<a>> : a \in WrittenPredictions}
      \cup {b \in WrittenPredictions \X WrittenPredictions :
                b[1].mode = b[2].mode /\ b[1] # b[2]}

\* No write of the invocation is in flight
betweenWrites(p) == pc[p] \in {"idle", "trimResults", "trimPredictions"}

\* The handler reaches step 2 with a page
SubmitObservations(p) ==
    /\ betweenWrites(p)
    /\ \E page \in ObservationPages : apiList' = [apiList EXCEPT ![p] = page]
    /\ pc' = [pc EXCEPT ![p] = "upsertResults"]
    /\ UNCHANGED <<envVars, tables, allResults, predMap, correctUpdates, updateIdx, modeIdx,
                   activeSet, needsRetrain, formulas, newPredictions, response>>

\* The handler reaches step 10 with a batch
SubmitPredictions(p) ==
    /\ betweenWrites(p)
    /\ \E batch \in PredictionBatches : newPredictions' = [newPredictions EXCEPT ![p] = batch]
    /\ pc' = [pc EXCEPT ![p] = "upsertPredictions"]
    /\ UNCHANGED <<envVars, tables, apiList, allResults, predMap, correctUpdates, updateIdx,
                   modeIdx, activeSet, needsRetrain, formulas, response>>

InitStore == Init /\ feed = EmptyFeed /\ ~lovableApiKey

NextStore ==
    \/ SubmitObservations(Solo)
    \/ upsertGameResults(Solo)
    \/ SubmitPredictions(Solo)
    \/ upsertPredictions(Solo)

SpecStore == InitStore /\ [][NextStore]_vars

\* ------------------------------------------------------------------------
\* The engine of step 8 on its own: the handler reaches step 8 with a
\* history (every history of a full page over the two outcomes, and a few
\* longer ones), mines both modes and forecasts; then a period is appended
\* and it forecasts again from the stored sets
\* ------------------------------------------------------------------------
\* The histories of PageSize periods over Outcomes
PageHistories ==
    {rowsOf([i \in 1..PageSize |-> item(i, o[i][1], o[i][2])]) : o \in [1..PageSize -> Outcomes]}

\* Longer histories: a run of low numbers then a run of high ones; numbers
\* and colours of different periods; one outcome throughout; alternating
\* colours around a single run of four
LongHistories ==
    {rowsOf([i \in 1..LongLen |->
                item(i, IF i <= 10 THEN 1 ELSE 8, IF i % 2 = 0 THEN "red" ELSE "green")]),
     rowsOf([i \in 1..LongLen |->
                item(i, (i * 3) % 10, IF i % 3 = 0 THEN "green" ELSE "red")]),
     rowsOf([i \in 1..LongLen |-> item(i, 2, "red")]),
     rowsOf([i \in 1..LongLen |->
                item(i, 5, IF i <= 20 THEN (IF i % 2 = 0 THEN "green" ELSE "red")
                           ELSE IF i <= 24 THEN "red"
                           ELSE (IF i % 2 = 0 THEN "red" ELSE "green"))])}

Histories == PageHistories \cup LongHistories

\* The history after one more period: the oldest record leaves
nextHistory(h, o) ==
    SubSeq(h, 2, Len(h))
      \o rowsOf(<< item(parseInt(h[Len(h)].issue_number) - 100 + 1, o[1], o[2]) >>)

\* The prediction records of the latest period when both were resolved
\* as wrong
wrongLatest(results) ==
    predMapOf({[issue_number    |-> latestIssueOf(results),
                mode            |-> Modes[j],
                prediction      |-> oppositeOf(labelOf(results[Len(results)], Modes[j]),
                                               outsOf(Modes[j])),
                correct         |-> <<FALSE>>,
                formula_applied |-> null] : j \in 1..2})

\* The invocation enters step 8 with results and the prediction records read
enterEngine(p, results, map) ==
    /\ allResults' = [allResults EXCEPT ![p] = results]
    /\ predMap' = [predMap EXCEPT ![p] = map]
    /\ pc' = [pc EXCEPT ![p] = "selectActive"]
    /\ modeIdx' = [modeIdx EXCEPT ![p] = 1]
    /\ newPredictions' = [newPredictions EXCEPT ![p] = <<>>]
    /\ started' = started + 1
    /\ UNCHANGED <<feed, lovableApiKey, aiOpinions, tables, apiList, correctUpdates,
                   updateIdx, activeSet, needsRetrain, formulas, response>>

\* The first invocation: nothing is mined yet
SubmitHistory(p) ==
    /\ pc[p] = "idle"
    /\ started = 0
    /\ \E h \in Histories : enterEngine(p, h, emptyMap)

\* A later invocation, one period on
SubmitNextPeriod(p) ==
    /\ pc[p] = "upsertPredictions"
    /\ started <= MaxShifts
    /\ \E o \in Outcomes : enterEngine(p, nextHistory(allResults[p], o), emptyMap)

\* A later invocation with no new period, the records of the latest
\* period being wrong: the counters of the active sets move again
SubmitSamePeriod(p) ==
    /\ pc[p] = "upsertPredictions"
    /\ started <= MaxSamePeriod
    /\ allResults[p][1].issue_number = "101"
    /\ enterEngine(p, allResults[p], wrongLatest(allResults[p]))

InitEngine == Init /\ feed = EmptyFeed /\ ~lovableApiKey

NextEngine ==
    \/ SubmitHistory(Solo)
    \/ SubmitNextPeriod(Solo)
    \/ selectActive(Solo)
    \/ deactivate(Solo)
    \/ insertSet(Solo)

SpecEngine == InitEngine /\ [][NextEngine]_vars

\* The engine on histories of every length from 1 to LongLen: the first
\* records of the longer histories
SubmitPrefix(p) ==
    /\ pc[p] = "idle"
    /\ started = 0
    /\ \E h \in LongHistories : \E k \in 1..Len(h) : enterEngine(p, SubSeq(h, 1, k), emptyMap)

NextPrefixes ==
    \/ SubmitPrefix(Solo)
    \/ selectActive(Solo)
    \/ deactivate(Solo)
    \/ insertSet(Solo)

SpecPrefixes == InitEngine /\ [][NextPrefixes]_vars

\* The engine on short histories whose records take numbers on both sides
\* of the SMALL/BIG boundary and colour tags in either case, with and
\* without "red"
TaggedNumbers == {0, 4, 5, 9}

ColorTags == {"red", "RED,VIOLET", "Green", "green,violet", "violet"}

TaggedHistories ==
    UNION {[1..k -> [color : ColorTags, number : TaggedNumbers]] : k \in 1..MaxTaggedLen}

SubmitTagged(p) ==
    /\ pc[p] = "idle"
    /\ started = 0
    /\ \E t \in TaggedHistories :
          enterEngine(p, [i \in 1..Len(t) |->
                             [issue_number |-> ToString(100 + i),
                              number       |-> t[i].number,
                              color        |-> t[i].color]], emptyMap)

NextFeatures ==
    \/ SubmitTagged(Solo)
    \/ selectActive(Solo)
    \/ deactivate(Solo)
    \/ insertSet(Solo)

SpecFeatures == InitEngine /\ [][NextFeatures]_vars

\* The engine invoked again and again while no new period arrives
NextRemine ==
    \/ SubmitHistory(Solo)
    \/ SubmitSamePeriod(Solo)
    \/ selectActive(Solo)
    \/ updateCounters(Solo)
    \/ deactivate(Solo)
    \/ insertSet(Solo)

SpecRemine == InitEngine /\ [][NextRemine]_vars

\* ------------------------------------------------------------------------
\* The handler on feeds of one period whose id is a string of digits of
\* any length, or holds other characters
\* ------------------------------------------------------------------------
IdSamples ==
    {"110", "0", "007", "099", "999", "", "20260217100050999", "99999999999999999999",
     "12a", "abc"}

IdFeeds == {<< [issueNumber |-> s, number |-> "4", color |-> "red"] >> : s \in IdSamples}

InitIds ==
    /\ feed \in IdFeeds
    /\ lovableApiKey = FALSE
    /\ started = 0
    /\ aiOpinions = 0
    /\ game_results = {}
    /\ predictions = {}
    /\ formula_sets = <<>>
    /\ pc = [p \in Procs |-> "idle"]
    /\ apiList = [p \in Procs |-> <<>>]
    /\ allResults = [p \in Procs |-> <<>>]
    /\ predMap = [p \in Procs |-> emptyMap]
    /\ correctUpdates = [p \in Procs |-> <<>>]
    /\ updateIdx = [p \in Procs |-> 0]
    /\ modeIdx = [p \in Procs |-> 1]
    /\ activeSet = [p \in Procs |-> null]
    /\ needsRetrain = [p \in Procs |-> FALSE]
    /\ formulas = [p \in Procs |-> <<>>]
    /\ newPredictions = [p \in Procs |-> <<>>]
    /\ response = [p \in Procs |-> "none"]

NextIds ==
    \/ StartAlone(Solo)
    \/ fetchApi(Solo)
    \/ upsertGameResults(Solo)
    \/ trimGameResults(Solo)
    \/ selectGameResults(Solo)
    \/ selectPredictions(Solo)
    \/ selectActive(Solo)
    \/ deactivate(Solo)
    \/ insertSet(Solo)
    \/ upsertPredictions(Solo)
    \/ trimPredictions(Solo)

SpecIds == InitIds /\ [][NextIds]_vars

\* ------------------------------------------------------------------------
\* Properties
\* ------------------------------------------------------------------------
ModeSet == Range(Modes)

\* The rows of formula_sets of a mode, and the active ones among them
setsOf(m) == {i \in 1..Len(formula_sets) : formula_sets[i].mode = m}

activeOf(m) == {i \in setsOf(m) : formula_sets[i].is_active}

\* Invocation p is between the deactivation and the insert of a retrain of m
retraining(p, m) == pc[p] = "insertSet" /\ Modes[modeIdx[p]] = m

\* C1: when invocations do not overlap, every mode has at most one active
\* formula set in every reachable state of the store; the active set is the
\* one mined last for the mode, and a mode that has sets has an active one
\* except between the deactivation and the insert of a retrain.
C1_OneActiveSetPerMode ==
    \A m \in ModeSet :
        /\ Cardinality(activeOf(m)) <= 1
        /\ \A i \in activeOf(m) : \A j \in setsOf(m) : j <= i
        /\ (setsOf(m) # {} /\ ~retraining(Solo, m)) => activeOf(m) # {}

\* A retrain has replaced an earlier set of a mode
C1_Retrained ==
    \E m \in ModeSet : Cardinality(setsOf(m)) >= 2 /\ Cardinality(activeOf(m)) = 1

\* C2: when two invocations overlap and both retrain a mode, no state has
\* two active formula sets of that mode.
C2_NoTwoActiveSetsWhenOverlapping ==
    \A m \in ModeSet : Cardinality(activeOf(m)) <= 1

\* Two overlapping invocations have both inserted a set for a mode
C2_BothRetrained ==
    \E m \in ModeSet : Cardinality(setsOf(m)) >= 2 /\ started = 2 /\ Len(formula_sets) <= 4

\* Invocation p sends the counter update of the current mode
countersStep(p) == pc[p] = "updateCounters" /\ pc'[p] # "updateCounters"

\* The stored record that is fed to the policy: the one of the latest period
fedRecord(p) ==
    CHOOSE r \in predictions :
        r.issue_number = latestIssueOf(allResults[p]) /\ r.mode = Modes[modeIdx[p]]

\* The counters of row new are those of row old after one resolved record
countedOnce(old, new, isCorrect) ==
    /\ new.total_predictions = old.total_predictions + 1
    /\ isCorrect => /\ new.correct_predictions = old.correct_predictions + 1
                    /\ new.consecutive_failures = 0
    /\ ~isCorrect => /\ new.correct_predictions = old.correct_predictions
                     /\ new.consecutive_failures = old.consecutive_failures + 1
    /\ new.accuracy = <<new.correct_predictions, new.total_predictions>>
    /\ new.mode = old.mode /\ new.formulas = old.formulas /\ new.is_active = old.is_active

\* C3: when a resolved record is fed to the policy of a mode with an active
\* set, total_predictions grows by 1; a correct record adds 1 to
\* correct_predictions and sets consecutive_failures to 0; an incorrect one
\* leaves correct_predictions and adds 1 to consecutive_failures; accuracy
\* becomes correct_predictions / total_predictions; no other set changes.
C3_CountersUpdatedExactly ==
    [][\A p \in Procs : countersStep(p) =>
          /\ fedRecord(p).correct # null
          /\ Len(formula_sets') = Len(formula_sets)
          /\ \A i \in 1..Len(formula_sets) :
                IF i = activeSet[p][1].id
                THEN countedOnce(formula_sets[i], formula_sets'[i], fedRecord(p).correct[1])
                ELSE formula_sets'[i] = formula_sets[i]]_vars

\* A set has counted a correct record and then an incorrect one
C3_CountedBoth ==
    \E i \in 1..Len(formula_sets) :
        /\ formula_sets[i].total_predictions >= 2
        /\ formula_sets[i].correct_predictions >= 1
        /\ formula_sets[i].consecutive_failures >= 1

\* The counter update of invocation p records the third failure in a row
thirdFailure(p) ==
    /\ countersStep(p)
    /\ formula_sets'[activeSet[p][1].id].consecutive_failures >= MAX_CONSECUTIVE_FAILURES

\* Invocation p pushes the forecast of the current mode
forecastPushed(p) ==
    /\ pc[p] \in {"selectActive", "updateCounters", "insertSet", "aiEnhance"}
    /\ Len(newPredictions'[p]) > Len(newPredictions[p])

pushedRecord(p) == newPredictions'[p][Len(newPredictions[p]) + 1]

\* The active rows of a mode after the step
activeAfter(m) ==
    {i \in 1..Len(formula_sets') : formula_sets'[i].mode = m /\ formula_sets'[i].is_active}

\* The row inserted by the step is a set freshly mined from the stored
\* history, active, with all counters 0
freshSetInserted(m) ==
    /\ Len(formula_sets') = Len(formula_sets) + 1
    /\ SubSeq(formula_sets', 1, Len(formula_sets)) = formula_sets
    /\ LET new == formula_sets'[Len(formula_sets')]
       IN  /\ new.mode = m
           /\ new.formulas = extractRules(orderAscending(game_results), m)
           /\ new.is_active
           /\ new.total_predictions = 0
           /\ new.correct_predictions = 0
           /\ new.consecutive_failures = 0
           /\ new.accuracy[1] = 0

\* The forecast pushed by the step was computed from the active set of the
\* mode, which has fewer than three failures in a row
forecastFromActiveSet(p, m) ==
    /\ Cardinality(activeAfter(m)) = 1
    /\ \A i \in activeAfter(m) :
          /\ formula_sets'[i].consecutive_failures < MAX_CONSECUTIVE_FAILURES
          /\ pushedRecord(p).formula_applied \in
                {null} \cup {<<f>> : f \in Range(formula_sets'[i].formulas)}
          /\ ~lovableApiKey =>
                pushedRecord(p) = forecastRecord(formula_sets'[i].formulas,
                                                 orderAscending(game_results), m, null)

\* C4: when the third forecast in a row of a mode's active set resolves as
\* wrong, the same invocation retrains before it forecasts: the counter
\* update that records the third failure is followed by the deactivation of
\* the mode's sets, the insert of a set mined from the stored history with
\* all counters 0, and only then the forecast, computed from that set.
C4_RetrainBeforeForecast ==
    [][\A p \in Procs :
          /\ thirdFailure(p) =>
                pc'[p] = "deactivate" /\ newPredictions'[p] = newPredictions[p]
          /\ pc[p] = "deactivate" /\ pc'[p] # "deactivate" =>
                /\ pc'[p] = "insertSet"
                /\ activeAfter(Modes[modeIdx[p]]) = {}
                /\ newPredictions'[p] = newPredictions[p]
          /\ pc[p] = "insertSet" /\ pc'[p] # "insertSet" =>
                freshSetInserted(Modes[modeIdx[p]])
          /\ forecastPushed(p) => forecastFromActiveSet(p, Modes[modeIdx[p]])]_vars

\* The forecasts of periods 111, 112 and 113 of a mode were all wrong, each
\* counted once by the set that made them, and the invocation that resolved
\* the third has replaced that set and pushed the forecast of period 114
C4_RetrainedAfterThreeFailures ==
    \E m \in ModeSet : \E i \in setsOf(m) : \E j \in activeOf(m) :
        /\ i < j
        /\ ~formula_sets[i].is_active
        /\ formula_sets[i].consecutive_failures = MAX_CONSECUTIVE_FAILURES
        /\ formula_sets[i].total_predictions = MAX_CONSECUTIVE_FAILURES
        /\ formula_sets[j].total_predictions = 0
        /\ \A issue \in {"111", "112", "113"} :
              \E r \in predictions :
                 r.issue_number = issue /\ r.mode = m /\ r.correct = <<FALSE>>
        /\ \E k \in 1..Len(newPredictions[Solo]) :
              /\ newPredictions[Solo][k].issue_number = "114"
              /\ newPredictions[Solo][k].mode = m

\* The policy stage of the mode of activeSet[p] is over in this invocation
policyDone(p) ==
    \/ pc[p] \in {"deactivate", "insertSet", "aiEnhance", "upsertPredictions", "trimPredictions"}
    \/ pc[p] = "selectActive" /\ modeIdx[p] = 2

\* The records of a mode that invocation p resolved from unknown
resolvedNow(p, m) == {k \in 1..Len(correctUpdates[p]) : correctUpdates[p][k].mode = m}

\* C5: every record resolved from unknown during an invocation is fed to
\* the policy of its mode: once the policy stage of a mode is over, the
\* total_predictions of the set that was active has grown by at least one
\* for each record of the mode resolved in this invocation.
C5_EveryResolvedRecordFed ==
    \A p \in Procs :
        (policyDone(p) /\ activeSet[p] # null) =>
            formula_sets[activeSet[p][1].id].total_predictions >=
                activeSet[p][1].total_predictions
                  + Cardinality(resolvedNow(p, activeSet[p][1].mode))

\* An invocation resolved a record and fed it to the policy
C5_ResolvedAndFed ==
    \E p \in Procs :
        /\ policyDone(p) /\ activeSet[p] # null
        /\ resolvedNow(p, activeSet[p][1].mode) # {}
        /\ formula_sets[activeSet[p][1].id].total_predictions >
              activeSet[p][1].total_predictions

\* C6: in every reachable state, also when invocations overlap, predictions
\* holds at most one record for each pair of period and mode.
C6_OneRecordPerPeriodAndMode ==
    \A a \in predictions : \A b \in predictions :
        (a.issue_number = b.issue_number /\ a.mode = b.mode) => a = b

\* Two overlapping invocations have both written a record for the same
\* period and mode, with different contents
C6_SameKeyWrittenTwice ==
    /\ pc[1] = "trimPredictions" /\ pc[2] = "trimPredictions"
    /\ \E a \in Range(newPredictions[1]) : \E b \in Range(newPredictions[2]) :
          a.issue_number = b.issue_number /\ a.mode = b.mode /\ a # b

\* The periods an invocation has read
issuesOf(results) == {results[k].issue_number : k \in 1..Len(results)}

\* Invocation p ends step 6
resolutionDone(p) ==
    \/ pc[p] = "updateCorrect" /\ pc'[p] # "updateCorrect"
    \/ pc[p] = "selectPredictions" /\ pc'[p] \notin {"updateCorrect", "idle"}

\* C7: the correct field of a record is unknown when a forecast is stored,
\* changes only from unknown to a boolean, to the value (prediction = label
\* of the stored observation of the period for the mode), and is never
\* changed once it is a boolean; an invocation that has read the observation
\* of a period leaves step 6 with every record of that period resolved.
C7_CorrectResolvedOnce ==
    [][/\ \A r \in predictions : \A t \in predictions' :
             (t.issue_number = r.issue_number /\ t.mode = r.mode) =>
                /\ t.prediction = r.prediction
                /\ r.correct # null => t.correct = r.correct
                /\ (r.correct = null /\ t.correct # null) =>
                      \E g \in game_results :
                         /\ g.issue_number = r.issue_number
                         /\ t.correct[1] = (r.prediction = labelOf(g, r.mode))
       /\ \A t \in predictions' :
             (/\ ~predictionConflict(predictions, t)
              /\ ~gameConflict(game_results, t)) => t.correct = null
       /\ \A p \in Procs : resolutionDone(p) =>
             \A t \in predictions' :
                t.issue_number \in issuesOf(allResults[p]) => t.correct # null]_vars

\* An invocation has resolved the forecast of a period it read
C7_ForecastResolved ==
    /\ pc[Solo] = "selectActive"
    /\ \E k \in 1..Len(correctUpdates[Solo]) : \E r \in predictions :
          /\ r.issue_number = correctUpdates[Solo][k].issue_number
          /\ r.mode = correctUpdates[Solo][k].mode
          /\ r.correct = <<correctUpdates[Solo][k].correct>>

\* Invocation p writes its page, and its batch
observationsWritten(p) == pc[p] = "upsertResults" /\ pc'[p] # "upsertResults"

predictionsWritten(p) == pc[p] = "upsertPredictions" /\ pc'[p] # "upsertPredictions"

\* C8: writing an observation whose period is stored, or a record whose
\* period and mode are stored, changes nothing and raises no error: every
\* stored row stays as it is, also when the payload written differs; a row
\* is added only for a key that was not stored; the handler goes on; and
\* writing the same rows again leaves the table as it is.
C8_WriteOfStoredKeyIsNoOp ==
    [][\A p \in Procs :
          /\ observationsWritten(p) =>
                /\ pc'[p] = "trimResults"
                /\ game_results \subseteq game_results'
                /\ \A r \in game_results' \ game_results :
                      r \in Range(rowsOf(apiList[p])) /\ ~gameConflict(game_results, r)
                /\ \A r \in Range(rowsOf(apiList[p])) : gameConflict(game_results', r)
                /\ \A a \in game_results' : \A b \in game_results' :
                      a.issue_number = b.issue_number => a = b
                /\ upsertGameRows(game_results', rowsOf(apiList[p])) = game_results'
          /\ predictionsWritten(p) =>
                /\ pc'[p] = "trimPredictions"
                /\ predictions \subseteq predictions'
                /\ \A r \in predictions' \ predictions :
                      r \in Range(newPredictions[p]) /\ ~predictionConflict(predictions, r)
                /\ \A r \in Range(newPredictions[p]) : predictionConflict(predictions', r)
                /\ \A a \in predictions' : \A b \in predictions' :
                      (a.issue_number = b.issue_number /\ a.mode = b.mode) => a = b
                /\ upsertPredictionRows(predictions', newPredictions[p]) = predictions'
      ]_vars

\* A record was written for a stored key with another prediction, after an
\* observation had been written for a stored period with another number
C8_DifferentPayloadWritten ==
    /\ pc[Solo] = "trimPredictions"
    /\ Len(newPredictions[Solo]) = 1
    /\ \E t \in predictions :
          /\ t.issue_number = newPredictions[Solo][1].issue_number
          /\ t.mode = newPredictions[Solo][1].mode
          /\ t.prediction # newPredictions[Solo][1].prediction
    /\ Len(apiList[Solo]) = 1
    /\ \E g \in game_results :
          /\ g.issue_number = apiList[Solo][1].issueNumber
          /\ g.number # parseInt(apiList[Solo][1].number)

\* The position of a period in the results an invocation read
positionOf(results, issue) == CHOOSE k \in 1..Len(results) : results[k].issue_number = issue

\* The rows of newPredictions that step 9 pushed: those of periods read
backfilledRows(p) ==
    {b \in Range(newPredictions[p]) : b.issue_number \in issuesOf(allResults[p])}

\* Histories that agree with h before position k: one record at k or later
\* has another number and colour, or h ends earlier, at k or later
historiesAgreeingBefore(h, k) ==
    {[h EXCEPT ![x[1]] = [issue_number |-> h[x[1]].issue_number,
                          number       |-> x[2],
                          color        |-> x[3]]] :
        x \in (k..Len(h)) \X {3, 8} \X {"red", "green"}}
      \cup {SubSeq(h, 1, n) : n \in k..Len(h)}

\* C9: the backfilled prediction of a period depends only on the
\* observations before it: on every history that agrees with the one read
\* up to the period, and differs at the period or later, step 9 writes the
\* same prediction for the period and the mode.
C9_BackfillIgnoresLaterObservations ==
    \A p \in Procs : pc[p] = "upsertPredictions" =>
        \A b \in backfilledRows(p) :
            \A h \in historiesAgreeingBefore(allResults[p],
                                             positionOf(allResults[p], b.issue_number)) :
                LET w == backfillFor(predMap[p], h,
                                     h[positionOf(allResults[p], b.issue_number)], b.mode)
                IN  w # <<>> /\ w[1].prediction = b.prediction

\* Step 9 has backfilled a period that is followed by later observations
C9_BackfilledBeforeLatest ==
    /\ pc[Solo] = "upsertPredictions"
    /\ \E b \in backfilledRows(Solo) :
          /\ b.mode = "color"
          /\ positionOf(allResults[Solo], b.issue_number) < Len(allResults[Solo])

\* C10: in both modes the prediction backfilled for a period is the label
\* of the mode that is not the label of the observation just before the
\* period.
C10_BackfillReversesLastLabel ==
    \A p \in Procs : pc[p] = "upsertPredictions" =>
        \A b \in backfilledRows(p) :
            b.prediction =
                oppositeOf(labelOf(allResults[p][positionOf(allResults[p], b.issue_number) - 1],
                                   b.mode),
                           outsOf(b.mode))

\* Step 9 has backfilled a period in size mode
C10_SizeBackfilled ==
    /\ pc[Solo] = "upsertPredictions"
    /\ \E b \in backfilledRows(Solo) : b.mode = "size"

\* C11: after step 9 every observation read that had no prediction record
\* for a mode has one pushed for it, with correct set to the comparison of
\* the prediction with the observation's label; the earliest observations
\* included.
C11_EveryObservationBackfilled ==
    \A p \in Procs : pc[p] = "upsertPredictions" =>
        \A i \in 1..Len(allResults[p]) : \A m \in ModeSet :
            ~has(predMap[p], keyOf(allResults[p][i].issue_number, m)) =>
                \E b \in Range(newPredictions[p]) :
                    /\ b.issue_number = allResults[p][i].issue_number
                    /\ b.mode = m
                    /\ b.correct = <<b.prediction = labelOf(allResults[p][i], m)>>

\* Step 9 has backfilled a period with its known correctness while the
\* earliest observation read had no prediction record
C11_EarliestLacksRecord ==
    /\ pc[Solo] = "upsertPredictions"
    /\ \E b \in backfilledRows(Solo) :
          b.correct = <<b.prediction = labelOf(allResults[Solo][positionOf(allResults[Solo],
                                                                          b.issue_number)], b.mode)>>
    /\ ~has(predMap[Solo], keyOf(allResults[Solo][1].issue_number, "color"))

\* The prediction records stored for the period after the latest stored
\* observation, for a mode
successorRows(m) ==
    {r \in predictions :
        /\ r.issue_number = nextIssueOf(latestIssueOf(orderAscending(game_results)))
        /\ r.mode = m}

\* The invocation has returned success and none has started since
succeeded(p) == pc[p] = "idle" /\ response[p] = "success"

\* C12: after a successful invocation over a non-empty history, trim
\* included, each mode has exactly one prediction record for the period
\* after the latest stored one, and its correct field is unknown.
C12_OneOpenForecastForSuccessor ==
    \A p \in Procs : (succeeded(p) /\ game_results # {}) =>
        \A m \in ModeSet :
            /\ Cardinality(successorRows(m)) = 1
            /\ \A r \in successorRows(m) : r.correct = null

\* An invocation has succeeded after the trim deleted prediction records
\* that earlier invocations had stored
C12_SucceededAfterTrimDeleted ==
    /\ succeeded(Solo)
    /\ started >= 3
    /\ \E g \in game_results : \A r \in predictions : r.issue_number # g.issue_number
    /\ \A m \in ModeSet :
          Cardinality({r \in predictions : r.mode = m}) = TRIM_PREDICTIONS

\* The condition of the formula at index i holds on the tail of the history
holdsAt(fs, h, m, i) ==
    applyOne(fs[i], extractFeatures(h, m).seq, extractFeatures(h, m).nums, outsOf(m)) # <<>>

\* The first index whose condition holds; 0 if none
firstHolding(fs, h, m) == least({i \in 1..Len(fs) : holdsAt(fs, h, m, i)})

\* The formulas in reverse order
reversed(fs) == [i \in 1..Len(fs) |-> fs[Len(fs) + 1 - i]]

\* The last label of the history in a mode
lastLabel(h, m) == labelOf(h[Len(h)], m)

\* applyFormulas returns the formula at index i and its prediction (the
\* stored label; for an alternation the label that continues it, for a
\* number cluster a size label), and the formulas after i play no part
returnsFormulaAt(fs, h, m, i) ==
    /\ applyFormulas(fs, h, m).formula = <<fs[i]>>
    /\ fs[i].prediction \in Range(outsOf(m)) =>
          applyFormulas(fs, h, m).prediction = fs[i].prediction
    /\ fs[i].type = "alternation" =>
          applyFormulas(fs, h, m).prediction = oppositeOf(lastLabel(h, m), outsOf(m))
    /\ fs[i].type = "number_clustering" =>
          applyFormulas(fs, h, m).prediction \in {"SMALL", "BIG"}
    /\ \A j \in 1..(i - 1) : ~holdsAt(fs, h, m, j)
    /\ applyFormulas(SubSeq(fs, 1, i), h, m) = applyFormulas(fs, h, m)
    /\ applyFormulas(SubSeq(fs, 1, i) \o reversed(SubSeq(fs, i + 1, Len(fs))), h, m)
          = applyFormulas(fs, h, m)

\* The formulas of the active set of a mode
activeFormulas(m) == activeSetOf(formula_sets, m)[1].formulas

\* The record pushed for the next period in a mode
pushedFor(p, m) ==
    CHOOSE r \in Range(newPredictions[p]) :
        r.mode = m /\ r.issue_number = nextIssueOf(latestIssueOf(allResults[p]))

\* C13: applyFormulas walks the formulas in stored order and returns the
\* prediction of the first formula whose condition holds on the tail,
\* with that formula; no earlier formula holds and the later ones do not
\* influence the result.
C13_FirstMatchingFormulaWins ==
    \A p \in Procs : \A m \in ModeSet :
        (pc[p] = "upsertPredictions"
            /\ firstHolding(activeFormulas(m), allResults[p], m) # 0) =>
            /\ returnsFormulaAt(activeFormulas(m), allResults[p], m,
                                firstHolding(activeFormulas(m), allResults[p], m))
            /\ pushedFor(p, m).prediction
                  = applyFormulas(activeFormulas(m), allResults[p], m).prediction
            /\ pushedFor(p, m).formula_applied
                  = <<activeFormulas(m)[firstHolding(activeFormulas(m), allResults[p], m)]>>

\* The forecast comes from a formula that is not the first of its set,
\* and a later formula with the other prediction holds too
C13_LaterFormulaAlsoHolds ==
    /\ pc[Solo] = "upsertPredictions"
    /\ \E m \in ModeSet : \E i, j \in 1..Len(activeFormulas(m)) :
          /\ 1 < i /\ i < j
          /\ firstHolding(activeFormulas(m), allResults[Solo], m) = i
          /\ holdsAt(activeFormulas(m), allResults[Solo], m, j)
          /\ activeFormulas(m)[i].prediction \in Range(outsOf(m))
          /\ activeFormulas(m)[j].prediction \in Range(outsOf(m))
          /\ activeFormulas(m)[j].prediction # activeFormulas(m)[i].prediction
          /\ pushedFor(Solo, m).formula_applied = <<activeFormulas(m)[i]>>

\* The fixed default of a mode
defaultOf(m) == IF m = "color" THEN "RED" ELSE "BIG"

\* The other label of a mode
otherLabel(label, m) ==
    IF m = "color" THEN (IF label = "RED" THEN "GREEN" ELSE "RED")
    ELSE (IF label = "BIG" THEN "SMALL" ELSE "BIG")

\* What applyFormulas returns when no formula holds
reversalOf(h, m) ==
    [prediction |-> IF Len(h) = 0 THEN defaultOf(m) ELSE otherLabel(lastLabel(h, m), m),
     formula    |-> null]

\* The history read, its first record alone, and the empty history
tailsOf(h) == {h, SubSeq(h, 1, 1), <<>>}

minedLists == {formula_sets[i].formulas : i \in 1..Len(formula_sets)}

\* A list is ordered by confidence x support, greatest first
sortedByScore(fs) ==
    \A i \in 1..(Len(fs) - 1) :
        fs[i].confidence * fs[i].support >= fs[i + 1].confidence * fs[i + 1].support

\* C15: a list returned by extractRules has at most 30 formulas, each
\* with a confidence between 0 and 1 (in thousandths: 0..1000) and an
\* integer support of at least 0, and it is ordered non-increasing by
\* confidence x support.
C15_MinedListBoundedAndSorted ==
    \A fs \in minedLists :
        /\ Len(fs) <= 30
        /\ \A i \in 1..Len(fs) :
              /\ fs[i].confidence \in 0..1000
              /\ fs[i].support \in Nat
        /\ sortedByScore(fs)

\* A mined list was cut to 30 formulas, of different scores, from more
\* candidates
C15_ListWasCut ==
    /\ pc[Solo] = "upsertPredictions"
    /\ \E m \in ModeSet :
          /\ Len(extractRules(allResults[Solo], m)) = 30
          /\ Len(minedCandidates(extractFeatures(allResults[Solo], m).seq,
                                 extractFeatures(allResults[Solo], m).nums, m)) > 30
          /\ extractRules(allResults[Solo], m) \in minedLists
          /\ scoreOf(extractRules(allResults[Solo], m)[1])
                > scoreOf(extractRules(allResults[Solo], m)[30])

\* ceil(0.03 x L)
supportFloor(L) == (3 * L + 99) \div 100

\* C16: every formula returned by extractRules for a history of length L
\* has confidence >= 0.55 and support >= ceil(0.03 x L), except the
\* formulas of the double/triple-repeat family, whose support is at least
\* half that floor; none has zero support.
C16_GatesHoldForMinedFormulas ==
    \A p \in Procs : \A fs \in minedLists : \A i \in 1..Len(fs) :
        pc[p] # "idle" =>
            /\ fs[i].confidence >= 550
            /\ fs[i].support > 0
            /\ IF fs[i].type = "double_repeat"
               THEN 2 * fs[i].support >= supportFloor(Len(allResults[p]))
               ELSE fs[i].support >= supportFloor(Len(allResults[p]))

\* A list mined from a history with a floor of 2 holds a repeat formula
\* with support 1 next to formulas of other families
C16_RepeatBelowFloor ==
    /\ pc[Solo] = "upsertPredictions"
    /\ supportFloor(Len(allResults[Solo])) = 2
    /\ \E fs \in minedLists : \E i, j \in 1..Len(fs) :
          /\ fs[i].type = "double_repeat" /\ fs[i].support = 1
          /\ fs[j].type # "double_repeat" /\ fs[j].support < 5

\* No period was appended since the first history was read
sameWindow(p) == pc[p] # "idle" /\ allResults[p][1].issue_number = "101"

successorOf(s) ==
    IF \E i \in 1..Len(s) : ~IsDigit(CharAt(s, i)) THEN s \o "?"
    ELSE IF s = "20260217100050999" THEN "20260217100051000"
    ELSE IF s = "99999999999999999999" THEN "100000000000000000000"
    ELSE ToString(parseInt(s) + 1)

\* C18: the successor computation never raises: for a period id that
\* parses as an integer of any size the successor is the integer plus one
\* in decimal, otherwise it is the id with "?" appended.
C18_SuccessorIsPlusOneOrSentinel ==
    \A p \in Procs :
        /\ response[p] # "error"
        /\ pc[p] = "upsertPredictions" =>
              /\ Len(newPredictions[p]) = 2
              /\ \A i \in 1..Len(newPredictions[p]) :
                    newPredictions[p][i].issue_number
                        = successorOf(latestIssueOf(allResults[p]))

\* Forecasts were pushed for the successor of an id that is not a number
C18_SentinelForecast ==
    /\ pc[Solo] = "upsertPredictions"
    /\ latestIssueOf(allResults[Solo]) = "12a"
    /\ newPredictions[Solo][1].issue_number = "12a?"

\* C19: when the feed's response is malformed the invocation aborts with
\* the upstream-error outcome, which is neither the success nor the
\* storage-error outcome, and it writes nothing: no observation, no
\* prediction record, no formula set, and nothing is mined.
C19_MalformedFeedAbortsUnchanged ==
    [][\A p \in Procs :
          /\ (pc[p] = "fetch" /\ pc'[p] = "idle") =>
                /\ response'[p] = "API error"
                /\ response'[p] \notin {"success", "DB read error", "error"}
                /\ UNCHANGED tables
          /\ (response[p] = "pending" /\ response'[p] = "API error") =>
                /\ pc[p] = "fetch" /\ pc'[p] = "idle"
                /\ UNCHANGED tables]_vars

\* An invocation aborted on a malformed response while the feed held a
\* period that is not stored, after an earlier invocation had filled the
\* store
C19_AbortedWithNewPeriodPending ==
    /\ pc[Solo] = "idle"
    /\ response[Solo] = "API error"
    /\ game_results # {}
    /\ formula_sets # <<>>
    /\ \E i \in 1..Len(feed) : \A g \in game_results : g.issue_number # feed[i].issueNumber

\* The step stores the forecasts the invocation pushed
forecastsStored(p) ==
    \A r \in Range(newPredictions[p]) :
        r.issue_number = nextIssueOf(latestIssueOf(allResults[p])) => r \in predictions'

\* C20: when the adjudicator is absent (no key), answers with an error
\* status, throws, or answers without a tool call, the invocation goes on
\* and the forecast stored for the next period is the prediction
\* applyFormulas returns for the active formulas and the whole history.
C20_FallsBackToApplyFormulas ==
    [][\A p \in Procs :
          /\ (forecastPushed(p) /\ aiOpinions' = aiOpinions) =>
                /\ pc'[p] # "idle" /\ response'[p] = "pending"
                /\ pushedRecord(p).correct = null
                /\ \E i \in activeAfter(Modes[modeIdx[p]]) :
                      pushedRecord(p).prediction
                          = applyFormulas(formula_sets'[i].formulas, allResults[p],
                                          Modes[modeIdx[p]]).prediction
          /\ (pc[p] = "upsertPredictions" /\ pc'[p] = "trimPredictions") =>
                forecastsStored(p)]_vars

\* With the key set the adjudicator gave no answer, and the forecast
\* stored comes from a formula that does not reverse the last label
C20_RuleForecastWithoutAdjudicator ==
    /\ lovableApiKey /\ aiOpinions = 0
    /\ pc[Solo] = "trimPredictions"
    /\ \E r \in Range(newPredictions[Solo]) :
          /\ r \in predictions
          /\ r.correct = null
          /\ r.formula_applied # null
          /\ r.prediction # finalFallback(allResults[Solo], r.mode)

\* Invocation p has returned its success response and no other has started
succeededLast(p) == pc[p] = "idle" /\ response[p] = "success"

\* The records whose correct field is unknown although the observation of
\* their period is stored
unresolvedWithObservation ==
    {r \in predictions : r.correct = null /\ gameConflict(game_results, r)}

\* C21: when invocations never overlap, after every invocation that returned
\* success no stored record has correct unknown while the observation of
\* its period is stored.
C21_NoUnresolvedRecordWithObservation ==
    succeededLast(Solo) => unresolvedWithObservation = {}

\* An invocation has succeeded after resolving a forecast whose observation
\* arrived, and the forecast of the next period is still open
C21_ResolvedAndOpen ==
    /\ succeededLast(Solo)
    /\ \E r \in predictions : \E t \in predictions :
          /\ r.correct # null /\ t.correct = null
          /\ r.issue_number = latestIssueOf(orderAscending(game_results))
          /\ t.issue_number = nextIssueOf(r.issue_number)
    /\ started >= 2

\* The stored records with the key of row n
storedFor(table, n) == {t \in table : t.issue_number = n.issue_number /\ t.mode = n.mode}

\* The forecasts among the rows invocation p computed: the rows whose
\* correct field is unknown
forecastsOf(p) ==
    {newPredictions[p][k] : k \in {j \in 1..Len(newPredictions[p]) :
                                      newPredictions[p][j].correct = null}}

\* C22: when invocations overlap and one of them writes a forecast for a
\* (successor, mode) key, the store then holds exactly one record of that
\* key; it carries the label that was stored first (the stored one if the
\* key was there, else the label of this write), and no step of any
\* invocation changes the prediction of a stored record.
C22_FirstForecastWriteWins ==
    [][/\ \A p \in Procs : predictionsWritten(p) =>
             \A n \in forecastsOf(p) :
                /\ Cardinality(storedFor(predictions', n)) = 1
                /\ \A t \in storedFor(predictions', n) :
                      IF storedFor(predictions, n) = {}
                      THEN t.prediction = n.prediction
                      ELSE \A r \in storedFor(predictions, n) : t.prediction = r.prediction
       /\ \A r \in predictions : \A t \in storedFor(predictions', r) :
             t.prediction = r.prediction]_vars

\* An invocation has written a forecast whose key another invocation had
\* already stored with a different label
C22_LostWithDifferentLabel ==
    \E p \in Procs :
       /\ pc[p] = "trimPredictions"
       /\ \E n \in forecastsOf(p) : \E t \in storedFor(predictions, n) :
             t.prediction # n.prediction /\ t.correct = null

\* Invocation q, still running, has sent the counter update of set id for
\* the record of period issue: it found the set active and the record
\* resolved, and it is past the update
hasCounted(q, id, issue) ==
    /\ pc[q] \in {"deactivate", "insertSet", "aiEnhance", "upsertPredictions", "trimPredictions"}
    /\ activeSet[q] # null
    /\ activeSet[q][1].id = id
    /\ latestIssueOf(allResults[q]) = issue
    /\ lastPredOf(predMap[q], allResults[q], activeSet[q][1].mode) # null

\* C23: no invocation counts into a formula set a resolved record that
\* another invocation, still running, has already counted into that set;
\* this is the overlapping case of "a resolved record is counted at most
\* once".
C23_ResolvedRecordCountedOnce ==
    [][\A p \in Procs : countersStep(p) =>
          \A q \in Procs \ {p} :
             ~hasCounted(q, activeSet[p][1].id, latestIssueOf(allResults[p]))]_vars

\* Two overlapping invocations have counted the record of the same period
\* into the same set, whose total_predictions has grown by 2
C23_CountedTwice ==
    \E p \in Procs : \E q \in Procs \ {p} :
       /\ activeSet[p] # null
       /\ hasCounted(p, activeSet[p][1].id, latestIssueOf(allResults[p]))
       /\ hasCounted(q, activeSet[p][1].id, latestIssueOf(allResults[p]))
       /\ formula_sets[activeSet[p][1].id].total_predictions
             >= Min(activeSet[p][1].total_predictions, activeSet[q][1].total_predictions) + 2

\* Invocation p decides to retrain the current mode
retrainStep(p) == pc[p] # "deactivate" /\ pc'[p] = "deactivate"

\* Invocation p decides to forecast the current mode without a retrain
reuseStep(p) ==
    /\ pc[p] \in {"selectActive", "updateCounters"}
    /\ pc'[p] \notin {"updateCounters", "deactivate"}
    /\ <<pc'[p], modeIdx'[p]>> # <<pc[p], modeIdx[p]>>

\* consecutive_failures of the set invocation p read, after the record of
\* the latest period, if it is resolved, has been counted
failuresAfterCount(p) ==
    LET last == lastPredOf(predMap[p], allResults[p], Modes[modeIdx[p]])
    IN  IF last = null THEN activeSet'[p][1].consecutive_failures
        ELSE IF last[1].correct[1] THEN 0
        ELSE activeSet'[p][1].consecutive_failures + 1

\* C24: an invocation retrains a mode only if it found no active set of
\* the mode or the consecutive_failures of the active set, after the
\* latest resolution is counted, is at least 3; otherwise it forecasts
\* with the formulas of the active set and inserts no set.
C24_RetrainOnlyAtThreshold ==
    [][\A p \in Procs :
          /\ retrainStep(p) =>
                \/ activeSet'[p] = null
                \/ failuresAfterCount(p) >= MAX_CONSECUTIVE_FAILURES
          /\ reuseStep(p) =>
                /\ activeSet'[p] # null
                /\ formulas'[p] = activeSet'[p][1].formulas
                /\ Len(formula_sets') = Len(formula_sets)]_vars

\* An invocation is about to retrain a mode whose active set it has just
\* reset to zero failures after a correct forecast
C24_RetrainAfterReset ==
    \E p \in Procs :
       /\ pc[p] = "deactivate" /\ activeSet[p] # null
       /\ lastPredOf(predMap[p], allResults[p], Modes[modeIdx[p]]) # null
       /\ lastPredOf(predMap[p], allResults[p], Modes[modeIdx[p]])[1].correct[1]
       /\ formula_sets[activeSet[p][1].id].consecutive_failures = 0

\* Invocation p takes a step of the current mode
moved(p) == <<pc'[p], modeIdx'[p]>> # <<pc[p], modeIdx[p]>>

\* Invocation p is in the retrain of a mode for which it found no active set
bootstrapping(p) == activeSet[p] = null /\ modeIdx[p] \in 1..2

\* C25: an invocation that needs a forecast of a mode with no active set
\* goes to the retrain without pushing a forecast, inserts a set mined from
\* the whole stored history, active and with all counters 0, and only then
\* pushes the forecast, computed from the formulas of that set; when the
\* forecast is pushed the mode has an active set.
C25_BootstrapBeforeForecast ==
    [][\A p \in Procs :
          /\ (pc[p] = "selectActive" /\ moved(p) /\ activeOf(Modes[modeIdx[p]]) = {}) =>
                /\ pc'[p] = "deactivate"
                /\ activeSet'[p] = null
                /\ newPredictions'[p] = newPredictions[p]
          /\ (pc[p] = "insertSet" /\ moved(p) /\ bootstrapping(p)) =>
                /\ freshSetInserted(Modes[modeIdx[p]])
                /\ formula_sets'[Len(formula_sets')].formulas =
                      extractRules(allResults[p], Modes[modeIdx[p]])
                /\ formulas'[p] = formula_sets'[Len(formula_sets')].formulas
          /\ (forecastPushed(p) /\ activeSet'[p] = null) =>
                /\ pc[p] \in {"insertSet", "aiEnhance"}
                /\ activeAfter(Modes[modeIdx[p]]) # {}
                /\ \A i \in activeAfter(Modes[modeIdx[p]]) :
                      /\ formula_sets'[i].total_predictions = 0
                      /\ formula_sets'[i].consecutive_failures = 0
                      /\ formulas'[p] = formula_sets'[i].formulas
                      /\ pushedRecord(p).formula_applied \in
                            {null} \cup {<<f>> : f \in Range(formula_sets'[i].formulas)}]_vars

\* The first invocation has mined sets with formulas for both modes and
\* pushed both forecasts
C25_Bootstrapped ==
    /\ pc[Solo] = "upsertPredictions"
    /\ started = 1
    /\ activeSet[Solo] = null
    /\ \A m \in ModeSet :
          /\ \E i \in activeOf(m) : formula_sets[i].total_predictions = 0
          /\ \E n \in forecastsOf(Solo) : n.mode = m
    /\ \E m \in ModeSet : \E i \in activeOf(m) : Len(formula_sets[i].formulas) > 0

\* k copies of a value
copies(v, k) == [i \in 1..k |-> v]

\* The labels outs[1], outs[2], outs[1], ... , k of them
alternating(outs, k) == [i \in 1..k |-> outs[2 - (i % 2)]]

\* The formula the miner pushes for a rule, taken from the miner itself on
\* the shortest sequence on which the rule has one match, a correct one
minedStreak(outs, streakLen, val) ==
    streakRule(Append(copies(val, streakLen), oppositeOf(val, outs)), outs, streakLen, val)[1]

minedNgram(outs, pattern, out) ==
    ngramRule(Append(pattern, out), outs, Len(pattern), 0)[1]

minedFreq(outs, window, threshold, val) ==
    freqRule(Append(copies(val, window), oppositeOf(val, outs)), outs, window, threshold, val)[1]

minedAlt(outs, altLen) == altRule(alternating(outs, altLen + 1), outs, altLen)[1]

minedTransition(outs, from, to) == transitionRule(<<from, to>>, outs, from, to)[1]

minedCluster(window) ==
    clusterRule(copies("SMALL", window + 1), copies(0, window + 1), window)[1]

minedRepeat(outs, repeatLen, val) ==
    repeatRule(Append(copies(val, repeatLen * 2), oppositeOf(val, outs)), outs, repeatLen, val)[1]

\* The case of the applier for formula f returns on the tail of seq
fires(f, seq, nums, outs) == applyOne(f, seq, nums, outs) # <<>>

\* Every formula of the set fs fires on the features f
firesOn(f, outs, fs) == \A g \in fs : fires(g, f.seq, f.nums, outs)

\* The miner's loop of each family, run on t, counts position i as a match
countsStreak(t, i, streakLen, val) == i \in streakLen..(Len(t) - 1) /\ isStreakAt(t, i, streakLen, val)

countsNgram(t, i, pattern) ==
    /\ i - Len(pattern) \in ngramStarts(t, Len(pattern))
    /\ Slice(t, i - Len(pattern), i) = pattern

countsFreq(t, i, window, threshold, val) ==
    /\ Len(t) >= window + 1
    /\ i \in window..(Len(t) - 1)
    /\ dominates(Slice(t, i - window, i), val, window, threshold)

countsAlt(t, i, altLen) ==
    Len(t) >= altLen + 1 /\ i \in altLen..(Len(t) - 1) /\ isAltAt(t, i, altLen)

countsTransition(t, i, from) == i \in 1..(Len(t) - 1) /\ At(t, i - 1) = from

countsCluster(tn, i, window) ==
    /\ Len(tn) >= window + 1
    /\ i \in window..(Len(tn) - 1)
    /\ \/ avgLow(Slice(tn, i - window, i), window)
       \/ avgHigh(Slice(tn, i - window, i), window)

countsRepeat(t, i, repeatLen, val) ==
    /\ Len(t) >= repeatLen * 2 + 1
    /\ i \in (repeatLen * 2)..(Len(t) - 1)
    /\ isDoubleRepeatAt(t, i, repeatLen, val)

\* The patterns of length n tried on seq: its last n labels, and the same
\* with the last label replaced
patternsFor(seq, outs, n) ==
    IF Len(seq) < n THEN {copies(outs[1], n), alternating(outs, n)}
    ELSE {LastN(seq, n),
          Append(SubSeq(LastN(seq, n), 1, n - 1), oppositeOf(seq[Len(seq)], outs))}

\* On sequence seq (numbers nums), extended by label x (number y), every
\* rule of every family fires in the applier exactly when the miner counts
\* the position of the added observation
sameMatching(seq, nums, outs, x, y) ==
    /\ \A streakLen \in {3, 4, 5, 6} : \A v \in 1..2 :
          fires(minedStreak(outs, streakLen, outs[v]), seq, nums, outs)
             <=> countsStreak(Append(seq, x), Len(seq), streakLen, outs[v])
    /\ \A n \in {2, 3, 4, 5} : \A pattern \in patternsFor(seq, outs, n) : \A v \in 1..2 :
          fires(minedNgram(outs, pattern, outs[v]), seq, nums, outs)
             <=> countsNgram(Append(seq, x), Len(seq), pattern)
    /\ \A window \in {5, 8, 10, 15} : \A threshold \in {70, 80, 90} : \A v \in 1..2 :
          fires(minedFreq(outs, window, threshold, outs[v]), seq, nums, outs)
             <=> countsFreq(Append(seq, x), Len(seq), window, threshold, outs[v])
    /\ \A altLen \in {3, 4, 5, 6} :
          fires(minedAlt(outs, altLen), seq, nums, outs)
             <=> countsAlt(Append(seq, x), Len(seq), altLen)
    /\ \A from \in 1..2 : \A to \in 1..2 :
          fires(minedTransition(outs, outs[from], outs[to]), seq, nums, outs)
             <=> countsTransition(Append(seq, x), Len(seq), outs[from])
    /\ \A window \in {5, 8, 10} :
          fires(minedCluster(window), seq, nums, outs)
             <=> countsCluster(Append(nums, y), Len(seq), window)
    /\ \A repeatLen \in {2, 3} : \A v \in 1..2 :
          fires(minedRepeat(outs, repeatLen, outs[v]), seq, nums, outs)
             <=> countsRepeat(Append(seq, x), Len(seq), repeatLen, outs[v])

\* The lengths of the sequences compared for a history: the whole history,
\* and every prefix of a history longer than a page
lengthsOf(h) == IF Len(h) > PageSize THEN 0..Len(h) ELSE {Len(h)}

sameMatchingOn(f, k, outs) ==
    \A o \in Outcomes :
       sameMatching(SubSeq(f.seq, 1, k), SubSeq(f.nums, 1, k), outs,
                    labelOf([number |-> o[1], color |-> o[2]], IF outs[1] = "RED" THEN "color" ELSE "size"),
                    o[1])

\* C26: for every rule of the seven families and every history the engine
\* is first entered with, the case of applyFormulas for the formula the miner
\* pushes for the rule returns on the sequence exactly when the loop of
\* extractRules for that rule, run on the sequence extended by one
\* observation, counts the position of that observation as a match.
C26_ApplierMatchesAsMiner ==
    \A p \in Procs :
       (pc[p] = "selectActive" /\ modeIdx[p] = 1 /\ started = 1) =>
          \A m \in ModeSet : \A k \in lengthsOf(allResults[p]) :
             sameMatchingOn(extractFeatures(allResults[p], m), k, outsOf(m))

\* The engine is entered with a history on whose sequences a formula of
\* each of the seven families fires
C26_EveryFamilyFires ==
    \E p \in Procs :
       /\ pc[p] = "selectActive" /\ modeIdx[p] = 1 /\ started = 1
       /\ firesOn(extractFeatures(allResults[p], "size"), outsOf("size"),
                  {minedStreak(outsOf("size"), 6, "BIG"),
                   minedNgram(outsOf("size"), copies("BIG", 5), "SMALL"),
                   minedFreq(outsOf("size"), 10, 90, "BIG"),
                   minedTransition(outsOf("size"), "BIG", "SMALL"),
                   minedCluster(5),
                   minedRepeat(outsOf("size"), 3, "BIG")})
       /\ firesOn(extractFeatures(allResults[p], "color"), outsOf("color"),
                  {minedAlt(outsOf("color"), 6)})

\* The position of formula f in the list cand
discoveryIndex(cand, f) == CHOOSE k \in 1..Len(cand) : cand[k] = f

\* The place of a formula's family in the generation order
familyRank(f) ==
    CASE f.type = "streak_reversal"     -> 1
      [] f.type \in {"2gram_pattern", "3gram_pattern", "4gram_pattern", "5gram_pattern"} -> 2
      [] f.type = "frequency_imbalance" -> 3
      [] f.type = "alternation"         -> 4
      [] f.type = "transition"          -> 5
      [] f.type = "number_clustering"   -> 6
      [] f.type = "double_repeat"       -> 7

\* In the list fs cut from the candidates cand, formulas of equal score
\* stand in the order of cand, and cand is in the order of the families
tiesInDiscoveryOrder(fs, cand) ==
    /\ \A i \in 1..Len(fs) : \A j \in (i + 1)..Len(fs) :
          scoreOf(fs[i]) = scoreOf(fs[j]) =>
             /\ discoveryIndex(cand, fs[i]) < discoveryIndex(cand, fs[j])
             /\ familyRank(fs[i]) <= familyRank(fs[j])
    /\ \A a \in 1..Len(cand) : \A b \in (a + 1)..Len(cand) :
          /\ familyRank(cand[a]) <= familyRank(cand[b])
          /\ cand[a].id # cand[b].id

\* The candidates extractRules pushes for the history of invocation p
candidatesOf(p, m) ==
    minedCandidates(extractFeatures(allResults[p], m).seq,
                    extractFeatures(allResults[p], m).nums, m)

\* C27: in every list extractRules returns, two formulas whose products
\* confidence * support are equal stand in the order in which they were
\* pushed: streak reversal, n-gram, frequency imbalance, alternation,
\* transition, number clustering, double repeat, and within a family the
\* order of its loops.
C27_TiesKeepDiscoveryOrder ==
    [][\A p \in Procs :
          (pc[p] = "insertSet" /\ pc'[p] # "insertSet") =>
             tiesInDiscoveryOrder(formula_sets'[Len(formula_sets')].formulas,
                                  candidatesOf(p, Modes[modeIdx[p]]))]_vars

\* A list was mined in which two formulas of different families have the
\* same score, and which is not in the order of the candidates
C27_TieAcrossFamilies ==
    /\ pc[Solo] = "upsertPredictions"
    /\ \E s \in 1..Len(formula_sets) :
          /\ \E i \in 1..Len(formula_sets[s].formulas) :
             \E j \in (i + 1)..Len(formula_sets[s].formulas) :
                /\ scoreOf(formula_sets[s].formulas[i]) = scoreOf(formula_sets[s].formulas[j])
                /\ familyRank(formula_sets[s].formulas[i]) < familyRank(formula_sets[s].formulas[j])
          /\ \E i \in 1..(Len(formula_sets[s].formulas) - 1) :
                familyRank(formula_sets[s].formulas[i]) > familyRank(formula_sets[s].formulas[i + 1])

\* The positions of the history h (first label at 1) whose K preceding
\* labels all equal V
streakPositions(h, K, V) ==
    {i \in (K + 1)..Len(h) : \A q \in (i - K)..(i - 1) : h[q] = V}

\* t thousandths is c / n rounded to three decimals, halves upwards
roundsTo(t, c, n) == 2 * t * n <= 2000 * c + n /\ 2000 * c + n < 2 * (t + 1) * n

\* f is the streak-reversal formula of some length K and label V, with the
\* support and confidence counted on h
streakFormulaOf(f, h, outs) ==
    \E K \in {3, 4, 5, 6} : \E v \in 1..2 :
       /\ f.id = "streak_rev_" \o ToString(K) \o "_" \o outs[v]
       /\ f.prediction = outs[3 - v]
       /\ f.support = Cardinality(streakPositions(h, K, outs[v]))
       /\ f.support > 0
       /\ roundsTo(f.confidence,
                   Cardinality({i \in streakPositions(h, K, outs[v]) : h[i] = outs[3 - v]}),
                   f.support)

streakFormulasOf(fs, h, outs) ==
    \A i \in 1..Len(fs) : fs[i].type = "streak_reversal" => streakFormulaOf(fs[i], h, outs)

\* C28: a streak-reversal formula of length K in {3,4,5,6} and label V that
\* extractRules emits predicts the other label, its support is the number
\* of positions i >= K of the history whose K preceding labels all equal
\* V, and its confidence is the fraction of those positions that carry the
\* other label, rounded to three decimals.
C28_StreakSupportAndConfidence ==
    [][\A p \in Procs :
          (pc[p] = "insertSet" /\ pc'[p] # "insertSet") =>
             /\ streakFormulasOf(formula_sets'[Len(formula_sets')].formulas,
                                 extractFeatures(allResults[p], Modes[modeIdx[p]]).seq,
                                 outsOf(Modes[modeIdx[p]]))
             /\ streakFormulasOf(candidatesOf(p, Modes[modeIdx[p]]),
                                 extractFeatures(allResults[p], Modes[modeIdx[p]]).seq,
                                 outsOf(Modes[modeIdx[p]]))]_vars

\* A stored list holds a streak-reversal formula of length 4 and one whose
\* confidence is a fraction below one that had to be rounded
C28_RoundedStreakFormula ==
    \E s \in 1..Len(formula_sets) :
       /\ \E i \in 1..Len(formula_sets[s].formulas) :
             /\ formula_sets[s].formulas[i].type = "streak_reversal"
             /\ formula_sets[s].formulas[i].condition \in
                   {"IF last 4 results = " \o v : v \in {"RED", "GREEN", "BIG", "SMALL"}}
       /\ \E i \in 1..Len(formula_sets[s].formulas) :
             /\ formula_sets[s].formulas[i].type = "streak_reversal"
             /\ formula_sets[s].formulas[i].support >= 3
             /\ (formula_sets[s].formulas[i].confidence
                   * formula_sets[s].formulas[i].support) % 1000 # 0

\* The K of the alternation formula f, read from its id
alternationLen(f) == CHOOSE K \in {3, 4, 5, 6} : f.id = "alt_" \o ToString(K)

\* The labels of the history h in mode m
labelsOf(h, m) == [i \in 1..Len(h) |-> labelOf(h[i], m)]

\* The last K labels of the labels ls strictly alternate
tailAlternates(ls, K) ==
    /\ Len(ls) >= K
    /\ \A i \in (Len(ls) - K + 2)..Len(ls) : ls[i] # ls[i - 1]

\* The label of the mode that is not x
notLabel(x, m) == CHOOSE y \in Range(outsOf(m)) : y # x

\* On the tail a, b, a, b, a the alternation formula f returns b
returnsOtherOnFive(f, a, b) ==
    applyFeatures(<<f>>, [seq |-> alternating(<<a, b>>, 5), nums |-> copies(0, 5)],
                  <<a, b>>).prediction = b

\* C29: when an alternation formula is the first formula whose condition
\* holds, applyFormulas returns the label that is not the last observed
\* label and never the stored value CONTINUE_ALT; on the tail
\* [A, B, A, B, A] it returns B.
C29_AlternationPredictsNonLastLabel ==
    \A p \in Procs : \A m \in ModeSet :
        pc[p] = "upsertPredictions" =>
            /\ \A i \in 1..Len(activeFormulas(m)) :
                  (activeFormulas(m)[i].type = "alternation"
                      /\ alternationLen(activeFormulas(m)[i]) <= 5) =>
                      /\ returnsOtherOnFive(activeFormulas(m)[i], outsOf(m)[1], outsOf(m)[2])
                      /\ returnsOtherOnFive(activeFormulas(m)[i], outsOf(m)[2], outsOf(m)[1])
            /\ (/\ firstHolding(activeFormulas(m), allResults[p], m) # 0
                /\ activeFormulas(m)[firstHolding(activeFormulas(m), allResults[p], m)].type
                      = "alternation") =>
                  /\ tailAlternates(labelsOf(allResults[p], m),
                        alternationLen(activeFormulas(m)[firstHolding(activeFormulas(m),
                                                                      allResults[p], m)]))
                  /\ applyFormulas(activeFormulas(m), allResults[p], m).prediction
                        = notLabel(lastLabel(allResults[p], m), m)
                  /\ applyFormulas(activeFormulas(m), allResults[p], m).prediction
                        # "CONTINUE_ALT"
                  /\ applyFormulas(activeFormulas(m), allResults[p], m).formula[1].prediction
                        = "CONTINUE_ALT"
                  /\ pushedFor(p, m).prediction = notLabel(lastLabel(allResults[p], m), m)

\* An alternation formula is the first to hold, after formulas that do
\* not, on a history whose last five labels alternate
C29_AlternationFirstToHold ==
    /\ pc[Solo] = "upsertPredictions"
    /\ \E m \in ModeSet :
          /\ firstHolding(activeFormulas(m), allResults[Solo], m) > 1
          /\ activeFormulas(m)[firstHolding(activeFormulas(m), allResults[Solo], m)].type
                = "alternation"
          /\ tailAlternates(labelsOf(allResults[Solo], m), 5)
          /\ pushedFor(Solo, m).prediction # lastLabel(allResults[Solo], m)

\* The R labels before position i (first label at 1) of h equal the R
\* labels before those
blockRepeatedBefore(h, i, R) ==
    /\ i >= 2 * R + 1
    /\ \A q \in (i - R)..(i - 1) : h[q] = h[q - R]

\* The 2R labels before position i of h all equal V
constantBlocksBefore(h, i, R, V) ==
    /\ i >= 2 * R + 1
    /\ \A q \in (i - 2 * R)..(i - 1) : h[q] = V

\* Some rule of the repeat family of length R counts position i of h
\* (first label at 1) as a match
repeatCounted(h, i, R, outs) == \E v \in 1..2 : countsRepeat(h, i - 1, R, outs[v])

\* Some rule of the repeat family of length R fires on the first k labels
repeatFires(h, nums, k, R, outs) ==
    \E v \in 1..2 : fires(minedRepeat(outs, R, outs[v]), SubSeq(h, 1, k), SubSeq(nums, 1, k), outs)

\* Every block of length R repeated twice in h is counted, and fired on
anyRepeatedBlockMatches(h, nums, outs) ==
    \A R \in {2, 3} :
       /\ \A i \in 1..Len(h) : blockRepeatedBefore(h, i, R) => repeatCounted(h, i, R, outs)
       /\ \A k \in 0..Len(h) :
             blockRepeatedBefore(h, k + 1, R) => repeatFires(h, nums, k, R, outs)

\* The rule of the repeat family for R and V counts and fires exactly on
\* 2R labels that all equal V
constantBlocksMatch(h, nums, outs) ==
    \A R \in {2, 3} : \A v \in 1..2 :
       /\ \A i \in 1..Len(h) :
             countsRepeat(h, i - 1, R, outs[v])
                <=> (Len(h) >= 2 * R + 1 /\ constantBlocksBefore(h, i, R, outs[v]))
       /\ \A k \in 0..Len(h) :
             fires(minedRepeat(outs, R, outs[v]), SubSeq(h, 1, k), SubSeq(nums, 1, k), outs)
                <=> constantBlocksBefore(h, k + 1, R, outs[v])

\* f is the repeat formula of some R and V with the support and the
\* confidence counted on h over the positions after 2R labels V
repeatFormulaOf(f, h, outs) ==
    \E R \in {2, 3} : \E v \in 1..2 :
       /\ f.id = "dbl_repeat_" \o ToString(R) \o "_" \o outs[v]
       /\ f = [minedRepeat(outs, R, outs[v]) EXCEPT !.confidence = f.confidence,
                                                     !.support = f.support]
       /\ f.prediction = outs[3 - v]
       /\ f.support = Cardinality({i \in 1..Len(h) : constantBlocksBefore(h, i, R, outs[v])})
       /\ f.support > 0
       /\ roundsTo(f.confidence,
                   Cardinality({i \in 1..Len(h) :
                                  constantBlocksBefore(h, i, R, outs[v]) /\ h[i] = outs[3 - v]}),
                   f.support)

repeatFormulasOf(fs, h, outs) ==
    \A i \in 1..Len(fs) : fs[i].type = "double_repeat" => repeatFormulaOf(fs[i], h, outs)

\* C30 as stated: for R in {2,3} the double/triple-repeat family counts a
\* match at position i whenever the R labels before i equal the R labels
\* before those (any block of length R repeated twice, such as [A, B]
\* with R = 2), and applyFormulas fires the rule on any such tail.
C30_AnyBlockRepeatedTwiceMatches ==
    [][\A p \in Procs :
          (pc[p] = "insertSet" /\ pc'[p] # "insertSet") =>
             anyRepeatedBlockMatches(extractFeatures(allResults[p], Modes[modeIdx[p]]).seq,
                                     extractFeatures(allResults[p], Modes[modeIdx[p]]).nums,
                                     outsOf(Modes[modeIdx[p]]))]_vars

\* C30 amended: for R in {2,3} and label V, the double/triple-repeat rule
\* counts a match at position i exactly when the 2R labels before i all
\* equal V (the block of R labels V repeated twice), its formula carries
\* that count as support, and its case in applyFormulas fires exactly on
\* the tails whose last 2R labels all equal V.
C30_ConstantBlockRepeatedTwiceMatches ==
    [][\A p \in Procs :
          (pc[p] = "insertSet" /\ pc'[p] # "insertSet") =>
             /\ constantBlocksMatch(extractFeatures(allResults[p], Modes[modeIdx[p]]).seq,
                                    extractFeatures(allResults[p], Modes[modeIdx[p]]).nums,
                                    outsOf(Modes[modeIdx[p]]))
             /\ repeatFormulasOf(candidatesOf(p, Modes[modeIdx[p]]),
                                 extractFeatures(allResults[p], Modes[modeIdx[p]]).seq,
                                 outsOf(Modes[modeIdx[p]]))
             /\ repeatFormulasOf(formula_sets'[Len(formula_sets')].formulas,
                                 extractFeatures(allResults[p], Modes[modeIdx[p]]).seq,
                                 outsOf(Modes[modeIdx[p]]))]_vars

\* A stored list holds a repeat formula mined from a history that also
\* has a block of two different labels repeated twice, which no rule of
\* the family counted
C30_MixedBlockNotCounted ==
    /\ pc[Solo] = "upsertPredictions"
    /\ started = 1
    /\ \E m \in ModeSet :
          /\ \E i \in 1..Len(activeFormulas(m)) :
                /\ activeFormulas(m)[i].type = "double_repeat"
                /\ activeFormulas(m)[i].condition \in
                      {"IF " \o v \o " repeated 2x twice" : v \in Range(outsOf(m))}
          /\ \E i \in 1..Len(allResults[Solo]) :
                /\ blockRepeatedBefore(labelsOf(allResults[Solo], m), i, 2)
                /\ labelsOf(allResults[Solo], m)[i - 1] # labelsOf(allResults[Solo], m)[i - 2]
                /\ ~repeatCounted(labelsOf(allResults[Solo], m), i, 2, outsOf(m))

\* The streak-reversal formula of length K and label V in the list fs, as
\* a list of at most one formula
streakIn(fs, K, V) ==
    SelectSeq(fs, LAMBDA f : f.id = "streak_rev_" \o ToString(K) \o "_" \o V)

\* The double-repeat formula of length R and label V in the list fs
repeatIn(fs, R, V) ==
    SelectSeq(fs, LAMBDA f : f.id = "dbl_repeat_" \o ToString(R) \o "_" \o V)

\* The miner counts the same positions of seq, and the applier fires on
\* the same prefixes of it, for the repeat rule (R, V) and the streak rule
\* (2R, V)
repeatMatchesAsStreak(seq, nums, outs) ==
    \A R \in {2, 3} : \A v \in 1..2 :
       /\ \A i \in 0..Len(seq) :
             countsRepeat(seq, i, R, outs[v]) <=> countsStreak(seq, i, 2 * R, outs[v])
       /\ \A k \in 0..Len(seq) :
             fires(minedRepeat(outs, R, outs[v]), SubSeq(seq, 1, k), SubSeq(nums, 1, k), outs)
                <=> fires(minedStreak(outs, 2 * R, outs[v]),
                          SubSeq(seq, 1, k), SubSeq(nums, 1, k), outs)

\* Where the list fs holds both the repeat rule (R, V) and the streak rule
\* (2R, V), they agree on support, confidence and prediction
repeatAgreesWithStreak(fs, outs) ==
    \A R \in {2, 3} : \A v \in 1..2 :
       (repeatIn(fs, R, outs[v]) # <<>> /\ streakIn(fs, 2 * R, outs[v]) # <<>>) =>
          /\ repeatIn(fs, R, outs[v])[1].support = streakIn(fs, 2 * R, outs[v])[1].support
          /\ repeatIn(fs, R, outs[v])[1].confidence
                = streakIn(fs, 2 * R, outs[v])[1].confidence
          /\ repeatIn(fs, R, outs[v])[1].prediction
                = streakIn(fs, 2 * R, outs[v])[1].prediction

\* In the list fs the streak rule (2R, V) stands before the repeat rule (R, V)
streakBeforeRepeat(fs, outs) ==
    \A R \in {2, 3} : \A v \in 1..2 :
       (repeatIn(fs, R, outs[v]) # <<>> /\ streakIn(fs, 2 * R, outs[v]) # <<>>) =>
          discoveryIndex(fs, streakIn(fs, 2 * R, outs[v])[1])
             < discoveryIndex(fs, repeatIn(fs, R, outs[v])[1])

\* applyFormulas on fs does not return a repeat rule whose streak rule is in fs
repeatNeverFirst(fs, h, m) ==
    \A R \in {2, 3} : \A v \in 1..2 :
       (repeatIn(fs, R, outsOf(m)[v]) # <<>> /\ streakIn(fs, 2 * R, outsOf(m)[v]) # <<>>) =>
          applyFormulas(fs, h, m).formula # repeatIn(fs, R, outsOf(m)[v])

\* C31: for R in {2,3} and label V the double-repeat rule (R, V) matches
\* the positions the streak-reversal rule of length 2R for V matches, in
\* mining and in application, so both have the same support and
\* confidence; when both are in a mined set the streak rule comes first,
\* and applyFormulas then never returns the double-repeat rule.
C31_RepeatIsStreakOfTwiceTheLength ==
    [][\A p \in Procs :
          /\ (pc[p] = "insertSet" /\ pc'[p] # "insertSet") =>
                /\ repeatMatchesAsStreak(extractFeatures(allResults[p], Modes[modeIdx[p]]).seq,
                                         extractFeatures(allResults[p], Modes[modeIdx[p]]).nums,
                                         outsOf(Modes[modeIdx[p]]))
                /\ repeatAgreesWithStreak(candidatesOf(p, Modes[modeIdx[p]]),
                                          outsOf(Modes[modeIdx[p]]))
                /\ repeatAgreesWithStreak(formula_sets'[Len(formula_sets')].formulas,
                                          outsOf(Modes[modeIdx[p]]))
                /\ streakBeforeRepeat(formula_sets'[Len(formula_sets')].formulas,
                                      outsOf(Modes[modeIdx[p]]))
          /\ (pc[p] = "upsertPredictions" /\ pc'[p] # "upsertPredictions") =>
                \A m \in ModeSet :
                   /\ streakBeforeRepeat(activeFormulas(m), outsOf(m))
                   /\ repeatNeverFirst(activeFormulas(m), allResults[p], m)
                   /\ \A r \in Range(newPredictions[p]) :
                         r.mode = m =>
                            \A R \in {2, 3} : \A v \in 1..2 :
                               (/\ repeatIn(activeFormulas(m), R, outsOf(m)[v]) # <<>>
                                /\ streakIn(activeFormulas(m), 2 * R, outsOf(m)[v]) # <<>>) =>
                                  r.formula_applied # repeatIn(activeFormulas(m), R, outsOf(m)[v])]_vars

\* A set holds the repeat rule and the streak rule of twice the length for
\* one label, the repeat rule holds on the history, and a formula that
\* stands before it was applied
C31_RepeatHoldsEarlierApplied ==
    /\ pc[Solo] = "upsertPredictions"
    /\ \E m \in ModeSet : \E R \in {2, 3} : \E v \in 1..2 :
          /\ repeatIn(activeFormulas(m), R, outsOf(m)[v]) # <<>>
          /\ streakIn(activeFormulas(m), 2 * R, outsOf(m)[v]) # <<>>
          /\ fires(repeatIn(activeFormulas(m), R, outsOf(m)[v])[1],
                   extractFeatures(allResults[Solo], m).seq,
                   extractFeatures(allResults[Solo], m).nums, outsOf(m))
          /\ applyFormulas(activeFormulas(m), allResults[Solo], m).formula # <<>>
          /\ discoveryIndex(activeFormulas(m),
                            applyFormulas(activeFormulas(m), allResults[Solo], m).formula[1])
                <= discoveryIndex(activeFormulas(m),
                                  streakIn(activeFormulas(m), 2 * R, outsOf(m)[v])[1])

\* The positions of h (first label at 1) where the pattern pat starts and
\* a label follows it
followedStarts(h, pat) ==
    {q \in 1..(Len(h) - Len(pat)) : SubSeq(h, q, q + Len(pat) - 1) = pat}

\* Of the labels that follow pat in h, more are x than are not
mostlyFollowedBy(h, pat, x) ==
    2 * Cardinality({q \in followedStarts(h, pat) : h[q + Len(pat)] = x})
       > Cardinality(followedStarts(h, pat))

\* f is an n-gram formula for a pattern of h whose prediction is the label
\* that follows the pattern most often
ngramFormulaOf(f, h) ==
    \E n \in {2, 3, 4, 5} : \E s \in 1..(Len(h) - n) :
       /\ f.type = ToString(n) \o "gram_pattern"
       /\ f.condition = "IF last " \o ToString(n) \o " = [" \o join(SubSeq(h, s, s + n - 1)) \o "]"
       /\ mostlyFollowedBy(h, SubSeq(h, s, s + n - 1), f.prediction)

\* f is a transition formula for a label of the mode whose prediction is
\* the label that follows it most often
transitionFormulaOf(f, h, outs) ==
    \E v \in 1..2 :
       /\ f.condition = "IF last result = " \o outs[v]
       /\ mostlyFollowedBy(h, <<outs[v]>>, f.prediction)

isNgram(f) == f.type \in {"2gram_pattern", "3gram_pattern", "4gram_pattern", "5gram_pattern"}

\* No two formulas of fs have one condition; the n-gram and transition
\* formulas predict the most frequent follower in h
noContradictingRules(fs, h, outs) ==
    /\ \A i \in 1..Len(fs) : \A j \in (i + 1)..Len(fs) :
          fs[i].condition # fs[j].condition
    /\ \A i \in 1..Len(fs) :
          /\ isNgram(fs[i]) => ngramFormulaOf(fs[i], h)
          /\ fs[i].type = "transition" => transitionFormulaOf(fs[i], h, outs)

\* C32: a mined set never holds two contradicting rules with one
\* condition: for every n in {2,3,4,5} and pattern P at most one n-gram
\* formula for P is retained, for every label X at most one transition
\* formula with condition 'last result = X', and its prediction is the
\* label that most often followed P (respectively X) in the mined history.
C32_OneRulePerCondition ==
    [][\A p \in Procs :
          (pc[p] = "insertSet" /\ pc'[p] # "insertSet") =>
             /\ noContradictingRules(candidatesOf(p, Modes[modeIdx[p]]),
                                     extractFeatures(allResults[p], Modes[modeIdx[p]]).seq,
                                     outsOf(Modes[modeIdx[p]]))
             /\ noContradictingRules(formula_sets'[Len(formula_sets')].formulas,
                                     extractFeatures(allResults[p], Modes[modeIdx[p]]).seq,
                                     outsOf(Modes[modeIdx[p]]))]_vars

\* A stored set holds an n-gram formula and a transition formula whose
\* confidence is below one: the other label followed too, and lost
C32_MajorityFollowerKept ==
    \E s \in 1..Len(formula_sets) :
       /\ \E i \in 1..Len(formula_sets[s].formulas) :
             /\ isNgram(formula_sets[s].formulas[i])
             /\ formula_sets[s].formulas[i].confidence < 1000
             /\ formula_sets[s].formulas[i].support >= 3
       /\ \E i \in 1..Len(formula_sets[s].formulas) :
             /\ formula_sets[s].formulas[i].type = "transition"
             /\ formula_sets[s].formulas[i].confidence < 1000

\* The list fs mined in mode m from a history of n records respects the
\* guards on the length: nothing below MIN_HISTORY records, clustering
\* only for size and from MIN_CLUSTER_HISTORY records on
respectsLengthGuards(fs, n, m) ==
    /\ n < 10 => fs = <<>>
    /\ \A i \in 1..Len(fs) :
          fs[i].type = "number_clustering" => (m = "size" /\ n >= 20)

\* C33: extractRules returns an empty list for every history shorter than
\* 10 observations, and emits number-clustering formulas only in size
\* mode and only for histories of at least 20 observations.
C33_LengthGuards ==
    [][\A p \in Procs :
          (pc[p] = "insertSet" /\ pc'[p] # "insertSet") =>
             /\ formula_sets'[Len(formula_sets')].formulas
                   = extractRules(allResults[p], Modes[modeIdx[p]])
             /\ respectsLengthGuards(formula_sets'[Len(formula_sets')].formulas,
                                     Len(allResults[p]), Modes[modeIdx[p]])
             /\ Len(allResults[p]) >= 10 =>
                   respectsLengthGuards(candidatesOf(p, Modes[modeIdx[p]]),
                                        Len(allResults[p]), Modes[modeIdx[p]])
             /\ \A m \in ModeSet : extractRules(<<>>, m) = <<>>]_vars

\* From a history of 20 records or more the size set holds a clustering
\* formula and the colour set, which is not empty, holds none
C33_ClusteringForSizeOnly ==
    /\ pc[Solo] = "upsertPredictions"
    /\ Len(allResults[Solo]) >= 20
    /\ \E i \in 1..Len(activeFormulas("size")) :
          activeFormulas("size")[i].type = "number_clustering"
    /\ activeFormulas("color") # <<>>
    /\ \A i \in 1..Len(activeFormulas("color")) :
          activeFormulas("color")[i].type # "number_clustering"

\* From a history of nine records both sets were stored empty
C33_NothingMinedFromNine ==
    /\ pc[Solo] = "upsertPredictions"
    /\ Len(allResults[Solo]) = 9
    /\ activeFormulas("size") = <<>>
    /\ activeFormulas("color") = <<>>

\* The colour tags that contain "red" once lower-cased
RedTags == {"red", "RED,VIOLET"}

\* The features f are those of the history h in mode m: one label and
\* one number per record, in order
featuresOfHistory(f, h, m) ==
    /\ Len(f.seq) = Len(h) /\ Len(f.nums) = Len(h)
    /\ \A i \in 1..Len(h) :
          /\ f.nums[i] = h[i].number
          /\ m = "size" => f.seq[i] = (IF h[i].number <= 4 THEN "SMALL" ELSE "BIG")
          /\ m = "color" => f.seq[i] = (IF h[i].color \in RedTags THEN "RED" ELSE "GREEN")

\* C34: extractFeatures returns a categorical and a numeric sequence of
\* the length of the input, index-aligned with it: in size mode element i
\* is SMALL when number i <= 4 and BIG otherwise, in color mode RED when
\* the lower-cased tag contains 'red' and GREEN otherwise; the result for
\* a prefix of the history is the prefix of the result for the history.
C34_FeaturesAlignedAndPrefixStable ==
    \A p \in Procs : \A m \in ModeSet :
       /\ featuresOfHistory(extractFeatures(allResults[p], m), allResults[p], m)
       /\ \A k \in 0..Len(allResults[p]) :
             /\ extractFeatures(SubSeq(allResults[p], 1, k), m).seq
                   = SubSeq(extractFeatures(allResults[p], m).seq, 1, k)
             /\ extractFeatures(SubSeq(allResults[p], 1, k), m).nums
                   = SubSeq(extractFeatures(allResults[p], m).nums, 1, k)

\* The engine ran on a history with an upper-case red tag on a high
\* number and a green tag on the number 4
C34_MixedCaseHistory ==
    /\ pc[Solo] = "upsertPredictions"
    /\ Len(allResults[Solo]) = 2
    /\ allResults[Solo][1].color = "RED,VIOLET" /\ allResults[Solo][1].number = 5
    /\ allResults[Solo][2].color = "Green" /\ allResults[Solo][2].number = 4
    /\ extractFeatures(allResults[Solo], "color").seq = <<"RED", "GREEN">>
    /\ extractFeatures(allResults[Solo], "size").seq = <<"BIG", "SMALL">>
    /\ extractFeatures(allResults[Solo], "size").nums = <<5, 4>>

\* The steps of an invocation up to the read of the history
beforeMining(p) == pc[p] \in {"fetch", "upsertResults", "trimResults", "selectResults"}

\* C35: when reading the full history fails, the invocation aborts with
\* an error outcome before any mining: from its start to its return no
\* prediction record is created or resolved and no formula set is
\* created, deactivated or updated.
C35_HistoryReadFailureAborts ==
    [][\A p \in Procs :
          /\ beforeMining(p) =>
                /\ predictions' = predictions
                /\ formula_sets' = formula_sets
                /\ pc'[p] = "idle" \/ beforeMining(p)' \/ pc'[p] = "selectPredictions"
          /\ (response[p] = "pending" /\ response'[p] = "DB read error") =>
                /\ pc[p] = "selectResults" /\ pc'[p] = "idle"
                /\ response'[p] # "success"
                /\ predictions' = predictions
                /\ formula_sets' = formula_sets
                /\ formulas'[p] = <<>> /\ newPredictions'[p] = <<>>]_vars

\* An invocation aborted on the read of the history after storing the
\* observation of a period whose forecast stays unresolved, with the
\* formula sets of an earlier invocation in the store
C35_AbortedWithForecastUnresolved ==
    /\ pc[Solo] = "idle"
    /\ response[Solo] = "DB read error"
    /\ unresolvedWithObservation # {}
    /\ \E i \in 1..Len(formula_sets) : formula_sets[i].is_active

\* The row new is the row old with the same id, mode and formulas
keepsFormulas(old, new) ==
    new.id = old.id /\ new.mode = old.mode /\ new.formulas = old.formulas

\* The row new has the counters of the row old
keepsCounters(old, new) ==
    /\ new.total_predictions = old.total_predictions
    /\ new.correct_predictions = old.correct_predictions
    /\ new.consecutive_failures = old.consecutive_failures
    /\ new.accuracy = old.accuracy

\* Invocation p takes a step of the retrain of the current mode
inRetrain(p) == pc[p] \in {"deactivate", "insertSet"} /\ moved(p)

\* Every stored set is still stored, with its formulas
noSetDeletedOrRewritten ==
    /\ Len(formula_sets') >= Len(formula_sets)
    /\ \A i \in 1..Len(formula_sets) : keepsFormulas(formula_sets[i], formula_sets'[i])

\* The step of the retrain of mode m changes the active flag of the
\* earlier sets of m at most
retrainFrame(m) ==
    \A i \in 1..Len(formula_sets) :
       /\ keepsCounters(formula_sets[i], formula_sets'[i])
       /\ formula_sets[i].mode # m => formula_sets'[i] = formula_sets[i]

\* A step outside a retrain changes counters at most, of an active set
policyFrame ==
    /\ Len(formula_sets') = Len(formula_sets)
    /\ \A i \in 1..Len(formula_sets) :
          /\ formula_sets'[i].is_active = formula_sets[i].is_active
          /\ formula_sets'[i] # formula_sets[i] => formula_sets[i].is_active

\* C36: a retrain of mode m deletes no formula set, changes only the
\* is_active flag of m's earlier sets (their formulas and counters stay
\* as they were) and leaves every set of the other mode unchanged;
\* outside a retrain the policy changes only the counters of the active
\* set, never its formulas.
C36_RetrainAndPolicyFrame ==
    [][/\ noSetDeletedOrRewritten
       /\ \A p \in Procs : inRetrain(p) => retrainFrame(Modes[modeIdx[p]])
       /\ (\A p \in Procs : ~inRetrain(p)) => policyFrame]_vars

\* An invocation is about to count a record into the set it read as
\* active, which another invocation has superseded since
C36_CountingIntoSupersededSet ==
    \E p \in Procs : \E i \in 1..Len(formula_sets) :
       /\ pc[p] = "updateCounters"
       /\ formula_sets[i].id = activeSet[p][1].id
       /\ ~formula_sets[i].is_active
       /\ \E j \in 1..Len(formula_sets) :
             /\ formula_sets[j].mode = formula_sets[i].mode
             /\ formula_sets[j].is_active

\* The invocation that runs is the one invoked again with nothing new
rerunning == started = MaxInvocations + 1

\* C37: running a whole invocation again when the feed returns no new
\* observation leaves the store as it was after the previous invocation:
\* the same observations, the same prediction records with the same
\* prediction and correct values, the same formula sets with the same
\* counters and flags; no counter update, no retrain, no new forecast.
C37_RerunLeavesStoreUnchanged ==
    [][rerunning =>
          /\ game_results' = game_results
          /\ predictions' = predictions
          /\ formula_sets' = formula_sets
          /\ \A p \in Procs :
                pc'[p] \notin {"updateCorrect", "selectActive", "updateCounters",
                               "deactivate", "insertSet", "aiEnhance", "upsertPredictions"}]_vars

\* The invocation run again has returned success, over a store with
\* resolved records, open forecasts, and a set that has counted failures
C37_RerunSucceeded ==
    /\ rerunning
    /\ succeededLast(Solo)
    /\ \E r \in predictions : r.correct = <<FALSE>>
    /\ \E r \in predictions : r.correct = null
    /\ \E i \in 1..Len(formula_sets) :
          formula_sets[i].is_active /\ formula_sets[i].consecutive_failures > 0

\* The counters of the set s are consistent: correct answers within the
\* total, the run of failures within the wrong answers
countersConsistent(s) ==
    /\ 0 <= s.correct_predictions
    /\ s.correct_predictions <= s.total_predictions
    /\ s.consecutive_failures >= 0
    /\ s.consecutive_failures <= s.total_predictions - s.correct_predictions

\* No invocation is running
allReturned == \A p \in Procs : pc[p] = "idle"

\* C38: when invocations never overlap, at the end of every invocation
\* the active formula set of each mode has consecutive_failures < 3, and
\* every formula set satisfies 0 <= correct_predictions <=
\* total_predictions and consecutive_failures <= total_predictions -
\* correct_predictions.
C38_CountersWithinBounds ==
    /\ \A i \in 1..Len(formula_sets) : countersConsistent(formula_sets[i])
    /\ allReturned =>
          \A i \in 1..Len(formula_sets) :
             formula_sets[i].is_active => formula_sets[i].consecutive_failures < 3

\* An invocation has returned after a retrain on the third failure in a
\* row: the superseded set holds the three failures, the new one none,
\* and the active set of the other mode has counted a correct record
C38_RetrainedOnThirdFailure ==
    /\ allReturned /\ response[Solo] = "success"
    /\ \E i, j, k \in 1..Len(formula_sets) :
          /\ formula_sets[i].mode = formula_sets[j].mode
          /\ ~formula_sets[i].is_active /\ formula_sets[i].consecutive_failures = 3
          /\ formula_sets[j].is_active /\ formula_sets[j].consecutive_failures = 0
          /\ formula_sets[k].mode # formula_sets[i].mode
          /\ formula_sets[k].is_active /\ formula_sets[k].correct_predictions > 0

\* The labels of the mode m as a set
labelSetOf(m) == {outsOf(m)[1], outsOf(m)[2]}

\* C39: every prediction record written has a predicted outcome in the
\* label set of its mode (RED or GREEN for color, SMALL or BIG for size),
\* never a symbolic value such as CONTINUE_ALT or FOLLOW_TREND, whatever
\* string the adjudicator returns: an answer outside the label set is
\* treated as no opinion.
C39_PredictionsAreLabels ==
    \A r \in predictions : r.prediction \in labelSetOf(r.mode)

\* Apart from the adjudicator's own words, every stored prediction is a
\* label of its mode: the rule engine and the fallbacks never store a
\* symbolic value
C39_OnlyAdjudicatorLeavesLabels ==
    \A r \in predictions :
       r.prediction \in labelSetOf(r.mode) \cup (AiAnswers(r.mode) \ labelSetOf(r.mode))

\* An adjudicator answer outside the label set has been stored as the
\* forecast of a period, with no formula to show for it, and the period
\* was later resolved against it
C39_ForeignAnswerStored ==
    \E r \in predictions :
       /\ r.prediction \notin labelSetOf(r.mode)
       /\ r.formula_applied = null
       /\ r.correct = <<FALSE>>

====
